---- MODULE Spec2Model ----
(***************************************************************************)
(* Conversation orchestration core of the ai-voice-agent backend:          *)
(*   app/services/conversation_state_service.py  (Conversation Context     *)
(*       Store: ConversationContext, ConversationStateService)             *)
(*   app/services/conversation_flow_service.py   (Turn Processor)          *)
(*   app/api/routes/webhooks.py                  (call-started, call-ended *)
(*       and response webhooks)                                            *)
(* Every webhook is an asyncio task: a task runs without interruption      *)
(* between two awaits on an external collaborator (agent lookup, call      *)
(* lookup, text generation), and tasks interleave at those awaits.  The    *)
(* storage upsert of _save_conversation_state is a synchronous client call *)
(* inside a coroutine, so it is no interleaving point.                     *)
(***************************************************************************)
EXTENDS Integers, Sequences, FiniteSets, TLC

\* ------------------------------------------------------------------ bounds
MaxTurns    == 4   \* turn events delivered over a run
MaxStarts   == 2   \* call-started events delivered over a run
MaxEnds     == 1   \* call-ended events delivered over a run
MaxFailures == 1   \* collaborator failures (lookup, generation, storage) over a run
MaxAnswers  == 1   \* answers of the text generation over a run
RaceTurns   == 3   \* turn events delivered over a run with overlapping webhooks
RaceStarts  == 1   \* call-started events delivered over such a run
ScriptedTurns == 3 \* turn events delivered over a run of the scripted flow
MaxRuns     == 2   \* runs of the extraction pipeline on one transcript
MaxCalls    == 3   \* reconciliations of one pair of extractor results
EndedEnds   == 2   \* call-ended events delivered over a run of the analysis
LiveTurns   == 3   \* turn events delivered over a run checked for progress
NumTasks    == 2   \* response webhooks in flight at the same time
NumWalkers  == 2   \* agents configured from the scenario registry
MaxWalk     == 6   \* states one call goes through, at most
ForwardTurns == 5  \* turn events delivered over a run without keyword or suggestion

\* ------------------------------------------------------------ input domains
CallIds     == {"c1", "c2"}
NoCallId    == "no_call_id"          \* payload without call_id
AgentId     == "agent1"
ResponseIds == {0, 1}
Tasks       == 1..NumTasks
Walkers     == 1..NumWalkers

\* ScenarioType (schemas/agent.py) as the flow service names its members.
DRIVER_CHECKIN     == "driver_checkin"
EMERGENCY_PROTOCOL == "emergency_protocol"
ScenarioTypes      == {DRIVER_CHECKIN, EMERGENCY_PROTOCOL}

\* ------------------------------------------------------- ConversationState
INITIALIZING       == "initializing"
GREETING           == "greeting"
STATUS_INQUIRY     == "status_inquiry"
GATHERING_INFO     == "gathering_info"
EMERGENCY_DETECTED == "emergency_detected"
EMERGENCY_HANDLING == "emergency_handling"
ESCALATING         == "escalating"
CLOSING            == "closing"
COMPLETED          == "completed"
ConversationState  ==
    { INITIALIZING, GREETING, STATUS_INQUIRY, GATHERING_INFO, EMERGENCY_DETECTED,
      EMERGENCY_HANDLING, ESCALATING, CLOSING, COMPLETED }

\* -------------------------------------------------------------- utterances
\* An utterance is known by the vocabulary words its lower-cased text holds
\* as substrings (every test of the handlers is `word in text.lower()`).
\*   u_crash   "there's been a crash, I think someone's hurt"
\*   u_arrived "I'm arrived at the dock, unloading now"
\*   u_driving "Still driving, about 40 miles out"
\*   u_door    "We're in door 5"
\*   u_okay    "Everyone is okay"
\*   u_yes     "Yes"
\*   u_here    "I'm here"
\*   u_problem "I've got a problem"
AllUtterances ==
    {"u_crash", "u_arrived", "u_driving", "u_door", "u_okay", "u_yes", "u_here", "u_problem"}
Utterances    == {"u_crash", "u_arrived", "u_yes"}

Words(u) ==
    CASE u = "u_crash"   -> {"crash", "here", "hurt"}
      [] u = "u_arrived" -> {"arrived", "at"}
      [] u = "u_driving" -> {"driving", "mile", "miles"}
      [] u = "u_door"    -> {"door"}
      [] u = "u_okay"    -> {"okay"}
      [] u = "u_here"    -> {"here"}
      [] u = "u_problem" -> {"problem"}
      [] OTHER           -> {}

\* any(word in user_lower for word in ws)
AnyIn(u, ws) == Words(u) \cap ws # {}

emergency_keywords ==
    { "emergency", "accident", "crash", "breakdown", "medical", "hurt", "injured",
      "hospital", "police", "fire", "ambulance", "help", "stuck", "blowout",
      "rollover", "collision" }

\* ------------------------------------------------------------ dictionaries
\* A Python dict is a set of <<key, value>> pairs with one pair per key; a
\* value is a pair <<kind, text>>.
Lit(s)    == <<"lit", s>>
Msg(u)    == <<"msg", u>>            \* the utterance text itself
InMsg(u)  == <<"in", u>>             \* f"In {user_message}"
EmptyDict == {}
Keys(d)   == { p[1] : p \in d }
\* dict.update(new)
DictUpdate(d, new) == { p \in d : p[1] \notin Keys(new) } \cup new
\* d[key] = value
DictSet(d, k, v) == DictUpdate(d, {<<k, v>>})

\* --------------------------------------------------------------- responses
\* The reply of the Turn Processor is a dict {"response", "response_id"}; the
\* webhook's own default reply also carries "end_call".
Reply(text, rid) == [response |-> text, response_id |-> rid]

\* A variant of _get_default_response that answers with a fixed response id
\* instead of the turn's.
FlowDefaultResponseFixedId(rid) == Reply("default", 0)

\* ConversationFlowService._get_default_response
FlowDefaultResponse(rid) == Reply("default", rid)

\* webhooks._get_default_response
WebhookDefaultResponse(rid) ==
    [response |-> "default", response_id |-> rid, end_call |-> FALSE]

VARIABLES
    heap,      \* the ConversationContext objects, by identity (slot)
    dicts,     \* the dict objects (context, collected_data) they refer to, by slot
    active,    \* ConversationStateService.active_conversations: call id -> object
    db,        \* table conversation_states: call id -> <<>> or <<row>>
    tasks,     \* response webhooks in flight: each one's position and locals
    enders,    \* call-ended webhooks: each call's position
    nTurns, nStarts, nEnds,  \* events delivered so far
    nFailures,               \* collaborator failures so far
    nAnswers,                \* answers of the text generation so far
    ext,       \* the extraction pipeline: its inputs, its clock and its results
    analysis,  \* post-call analysis: each call's transcript, scenario and stored results
    walk,      \* configured agents: each one's scenario and the states its call went through
    reg,       \* the scenario registry's caller: its inputs and what each call returned
    upd,       \* the Context Store's update: how many calls, and the arguments of the last
    proc       \* the post-call conversation processor: its inputs and its results

aux  == <<ext, analysis, walk, reg, upd, proc>>
vars == <<heap, dicts, active, db, tasks, enders, nTurns, nStarts, nEnds, nFailures,
          nAnswers, aux>>

\* A collaborator call succeeds (ok) or fails; a failure is counted, and a run
\* has at most MaxFailures of them.
Collaborator(ok) ==
    /\ ok \/ nFailures < MaxFailures
    /\ nFailures' = IF ok THEN nFailures ELSE nFailures + 1

NoObject == 0

\* An object is referenced by active_conversations or by a webhook in flight;
\* so there are never more than these live objects, and twice as many dicts.
Objects   == 1..(Cardinality(CallIds) + NumTasks)
DictSlots == 1..(2 * (Cardinality(CallIds) + NumTasks))

\* ConversationContext.__init__; ctxDict and dataDict are the two fresh dicts.
NewContext(call_id, agent_id, scenario_type, ctxDict, dataDict) ==
    [ call_id              |-> call_id,
      agent_id             |-> agent_id,
      scenario_type        |-> scenario_type,
      state                |-> INITIALIZING,
      context              |-> ctxDict,
      collected_data       |-> dataDict,
      conversation_history |-> <<>>,
      emergency_detected   |-> FALSE,
      turn_count           |-> 0 ]

\* ConversationContext.to_dict over the heap h and the dicts ds: the row's
\* context_data, serialised by value at the time of the upsert.
ToDict(h, ds, o) ==
    [ call_id              |-> h[o].call_id,
      agent_id             |-> h[o].agent_id,
      scenario_type        |-> h[o].scenario_type,
      state                |-> h[o].state,
      context              |-> ds[h[o].context],
      collected_data       |-> ds[h[o].collected_data],
      conversation_history |-> h[o].conversation_history,
      emergency_detected   |-> h[o].emergency_detected,
      turn_count           |-> h[o].turn_count ]

\* ConversationStateService._save_conversation_state when the upsert succeeds
\* (when it raises, the table is left as it was and the caller sees the error).
SaveConversationState(d, h, ds, o) ==
    [d EXCEPT ![h[o].call_id] = <<ToDict(h, ds, o)>>]

\* ConversationStateService.get_conversation
GetConversation(a, call_id) == a[call_id]

\* The slot of an object nothing refers to: the interpreter has freed it.
FreeContext == NewContext(NoCallId, AgentId, DRIVER_CHECKIN, 1, 1)

InFlight(tk) == { t \in Tasks : tk[t].pc \notin {"idle", "done"} }

LiveObjects(a, tk) ==
    ({ a[c] : c \in CallIds } \cup { tk[t].ctx : t \in InFlight(tk) }) \ {NoObject}

LiveDicts(h, live) ==
    { h[o].context : o \in live } \cup { h[o].collected_data : o \in live }

\* The memory m once the objects and dicts that neither the table a nor a task
\* of tk in flight refers to are freed.
Collect(m, a, tk) ==
    LET live == LiveObjects(a, tk)
        used == LiveDicts(m.h, live)
    IN  [ h  |-> [o \in Objects |-> IF o \in live THEN m.h[o] ELSE FreeContext],
          ds |-> [k \in DictSlots |-> IF k \in used THEN m.ds[k] ELSE EmptyDict] ]

Lowest(S) == CHOOSE x \in S : \A y \in S : x <= y

\* A task slot: the position of the webhook in it, its inputs (event is the
\* ordinal of the turn event it serves), its context object, the state name it
\* gave the text generation, and its reply once it has returned.
IdleTask == [pc |-> "idle", event |-> 0, call_id |-> NoCallId, msg |-> "u_yes",
             response_id |-> 0, ctx |-> NoObject, current_state |-> INITIALIZING,
             result |-> <<>>]

InitStore ==
    /\ heap = [o \in Objects |-> FreeContext]
    /\ dicts = [k \in DictSlots |-> EmptyDict]
    /\ active = [c \in CallIds |-> NoObject]
    /\ db = [c \in CallIds |-> <<>>]
    /\ tasks = [t \in Tasks |-> IdleTask]
    /\ enders = [c \in CallIds |-> "idle"]
    /\ nTurns = 0
    /\ nStarts = 0
    /\ nEnds = 0
    /\ nFailures = 0
    /\ nAnswers = 0

\* The extraction pipeline before any transcript has been given to it.
ExtIdle ==
    [ transcript |-> "t_empty", scenario_type |-> "check_in",
      answer |-> [ok |-> FALSE, data |-> [k \in {} |-> "null"]], clock |-> 0, runs |-> <<>>, calls |-> <<>> ]

\* Post-call analysis of a call before its call-ended event.
AnalysisIdle == [transcript |-> "t_empty", scenario_type |-> "none", stored |-> <<>>]

InitAnalysis == analysis = [c \in CallIds |-> AnalysisIdle]

\* An agent before its configuration is built.
WalkIdle == [scenario_type |-> "none", starting_state |-> "none", trail |-> <<>>]

InitWalk == walk = [w \in Walkers |-> WalkIdle]

\* A numeric field of an agent record: the key is absent, holds None, or holds
\* a number (in hundredths).
NoNumber  == [given |-> "absent", value |-> 0]
Number(n) == [given |-> "number", value |-> n]

\* The registry's caller before any call, with an agent record that has the
\* required fields and nothing else.
RegIdle ==
    [ scenario_type |-> "driver_checkin",
      agent_data    |-> [ name |-> "Dispatch", general_prompt |-> "agent_prompt",
                          voice_id |-> "voice1", scenario_type |-> "driver_checkin",
                          begin_message |-> "absent", model |-> "absent",
                          responsiveness |-> NoNumber, backchannel_frequency |-> NoNumber ],
      errors |-> <<>>, configs |-> <<>>, llm_configs |-> <<>>, agent_configs |-> <<>> ]

InitReg == reg = RegIdle

\* No call of update_conversation yet.
UpdIdle == [n |-> 0, call_id |-> "no_call_id", updates |-> <<>>]

InitUpd == upd = UpdIdle

\* The conversation processor before any transcript has been given to it.
ProcIdle == [transcript |-> "p_plain", metadata |-> "m_empty", results |-> <<>>]

InitProc == proc = ProcIdle

Init ==
    InitStore /\ InitAnalysis /\ InitWalk /\ InitReg /\ InitUpd /\ InitProc /\ ext = ExtIdle

\* ----------------------------------------------------- call-started webhook
\* ConversationStateService.initialize_conversation: a new context replaces
\* whatever active_conversations held for the call id, then the initial row
\* is stored; a storage error leaves the new context in place and is re-raised.
InitializeConversation(call_id, scenario_type, saved) ==
    LET g   == Collect([h |-> heap, ds |-> dicts],
                       [active EXCEPT ![call_id] = NoObject], tasks)
        liv == LiveObjects([active EXCEPT ![call_id] = NoObject], tasks)
        o   == Lowest(Objects \ liv)
        k1  == Lowest(DictSlots \ LiveDicts(g.h, liv))
        k2  == Lowest(DictSlots \ (LiveDicts(g.h, liv) \cup {k1}))
        h2  == [g.h EXCEPT ![o] = NewContext(call_id, AgentId, scenario_type, k1, k2)]
    IN  /\ heap' = h2
        /\ dicts' = g.ds
        /\ active' = [active EXCEPT ![call_id] = o]
        /\ db' = IF saved THEN SaveConversationState(db, h2, g.ds, o) ELSE db

\* handle_call_started: the call-status update and the agent lookup come first
\* (either may raise, and then nothing is initialised); the agent's scenario
\* type, or DRIVER_CHECKIN without an agent, goes to initialize_conversation.
CallStarted(call_id) ==
    /\ nStarts' = nStarts + 1
    /\ \/ \E scenario_type \in ScenarioTypes, saved \in BOOLEAN :
            /\ InitializeConversation(call_id, scenario_type, saved)
            /\ Collaborator(saved)
       \/ /\ Collaborator(FALSE)
          /\ UNCHANGED <<heap, dicts, active, db>>
    /\ UNCHANGED <<tasks, enders, nTurns, nEnds, nAnswers>>


\* ------------------------------------------- ConversationContext's methods
\* A memory m is the pair [h |-> heap, ds |-> dicts]; o is the object a method
\* is called on.

\* ConversationContext.update_state
UpdateState(m, o, new_state) == [m EXCEPT !.h[o].state = new_state]

\* A variant of add_message that numbers the message but leaves turn_count as
\* it was.
AddMessageNoCount(m, o, role, content) ==
    LET message == [role |-> role, content |-> content, turn |-> m.h[o].turn_count]
    IN  [m EXCEPT !.h[o].conversation_history = Append(@, message)]

\* ConversationContext.add_message: the message takes the current turn_count
\* as its turn, and turn_count goes up by one.
AddMessage(m, o, role, content) ==
    LET message == [role |-> role, content |-> content, turn |-> m.h[o].turn_count]
    IN  [m EXCEPT !.h[o].conversation_history = Append(@, message),
                  !.h[o].turn_count = @ + 1]

\* ConversationContext.update_context
UpdateContext(m, o, key, value) ==
    [m EXCEPT !.ds[m.h[o].context] = DictSet(@, key, value)]

\* ConversationContext.update_collected_data
UpdateCollectedData(m, o, data) ==
    [m EXCEPT !.ds[m.h[o].collected_data] = DictUpdate(@, data)]

\* The result of ConversationContext.detect_emergency.
EmergencyKeywordIn(u) == AnyIn(u, emergency_keywords)

\* The effect of ConversationContext.detect_emergency.
DetectEmergency(m, o, u) ==
    IF EmergencyKeywordIn(u)
    THEN UpdateState([m EXCEPT !.h[o].emergency_detected = TRUE], o, EMERGENCY_DETECTED)
    ELSE m

\* ------------------------------------------------- the state handlers
\* Each handler gives [m |-> the memory after it, resp |-> its reply].
Out(m, text, rid) == [m |-> m, resp |-> Reply(text, rid)]

\* A variant of _handle_emergency_detection that records the trigger and
\* acknowledges but leaves the state where detect_emergency put it.
HandleEmergencyDetectionNoTransition(m, o, u, rid) ==
    Out(UpdateContext(m, o, "emergency_trigger", Msg(u)), "emergency_ack", rid)

\* ConversationFlowService._handle_emergency_detection
HandleEmergencyDetection(m, o, u, rid) ==
    Out(UpdateContext(UpdateState(m, o, EMERGENCY_HANDLING), o, "emergency_trigger", Msg(u)),
        "emergency_ack", rid)

\* ConversationFlowService._handle_initialization up to its await on the call
\* lookup, and its reply after it.
HandleInitializationEnter(m, o) == UpdateState(m, o, GREETING)

HandleInitializationReply(m, o, rid) ==
    IF m.h[o].scenario_type = DRIVER_CHECKIN
    THEN Out(m, "checkin_opening", rid)
    ELSE Out(m, "other_opening", rid)

\* ConversationFlowService._handle_greeting_response
HandleGreetingResponse(m, o, u, rid) ==
    LET m1 == UpdateState(m, o, STATUS_INQUIRY)
    IN  IF AnyIn(u, {"arrived", "here", "at", "delivery", "pickup"})
        THEN Out(UpdateContext(m1, o, "likely_arrived", Lit("True")), "ask_unloading", rid)
        ELSE IF AnyIn(u, {"driving", "road", "highway", "miles"})
        THEN Out(UpdateContext(m1, o, "status", Lit("driving")), "ask_location_eta", rid)
        ELSE IF AnyIn(u, {"delayed", "stuck", "traffic", "problem"})
        THEN Out(UpdateContext(m1, o, "status", Lit("delayed")), "ask_delay", rid)
        ELSE Out(m1, "ask_specific", rid)

\* ConversationFlowService._handle_status_response: TRUE when no pattern
\* matches and the handler defers to _generate_llm_response.
StatusDefersToLLM(u) ==
    /\ ~AnyIn(u, {"arrived", "here"})
    /\ ~AnyIn(u, {"driving", "road", "miles"})

\* A variant of _handle_status_response that moves on and asks its question
\* but records nothing.
HandleStatusResponseNoData(m, o, u, rid) ==
    LET m1 == UpdateState(m, o, GATHERING_INFO)
    IN  IF AnyIn(u, {"arrived", "here"})
        THEN Out(m1, "ask_door_pod", rid)
        ELSE IF AnyIn(u, {"driving", "road", "miles"})
        THEN Out(m1, "ask_eta", rid)
        ELSE Out(m1, "deferred", rid)

\* ConversationFlowService._handle_status_response, its scripted branches.
HandleStatusResponse(m, o, u, rid) ==
    LET m1 == UpdateState(m, o, GATHERING_INFO)
    IN  IF AnyIn(u, {"arrived", "here"})
        THEN Out(UpdateCollectedData(m1, o,
                    { <<"driver_status", Lit("Arrived")>>,
                      <<"call_outcome", Lit("Arrival Confirmation")>> }),
                 "ask_door_pod", rid)
        ELSE IF AnyIn(u, {"driving", "road", "miles"})
        THEN Out(UpdateCollectedData(m1, o,
                    { <<"driver_status", Lit("Driving")>>,
                      <<"call_outcome", Lit("In-Transit Update")>> }),
                 "ask_eta", rid)
        ELSE Out(m1, "deferred", rid)

\* ConversationFlowService._has_sufficient_info
HasSufficientInfo(m, o) ==
    LET collected == m.ds[m.h[o].collected_data]
    IN  IF m.h[o].scenario_type = DRIVER_CHECKIN
        THEN {"driver_status", "call_outcome"} \subseteq Keys(collected)
        ELSE Cardinality(collected) >= 2

\* A variant of _handle_info_gathering that closes without looking at what has
\* been collected.
HandleInfoGatheringAlwaysCloses(m, o, u, rid) ==
    LET collected_data ==
            IF "door" \in Words(u) THEN {<<"unloading_status", InMsg(u)>>}
            ELSE IF "waiting" \in Words(u)
            THEN {<<"unloading_status", Lit("Waiting for dock assignment")>>}
            ELSE IF AnyIn(u, {"am", "pm", "hour", "minute"}) THEN {<<"eta", Msg(u)>>}
            ELSE IF AnyIn(u, {"highway", "i-", "mile", "exit"})
            THEN {<<"current_location", Msg(u)>>}
            ELSE {}
        m1 == IF collected_data # {} THEN UpdateCollectedData(m, o, collected_data) ELSE m
    IN  Out(UpdateState(m1, o, CLOSING), "anything_else", rid)

\* ConversationFlowService._handle_info_gathering
HandleInfoGathering(m, o, u, rid) ==
    LET collected_data ==
            IF "door" \in Words(u) THEN {<<"unloading_status", InMsg(u)>>}
            ELSE IF "waiting" \in Words(u)
            THEN {<<"unloading_status", Lit("Waiting for dock assignment")>>}
            ELSE IF AnyIn(u, {"am", "pm", "hour", "minute"}) THEN {<<"eta", Msg(u)>>}
            ELSE IF AnyIn(u, {"highway", "i-", "mile", "exit"})
            THEN {<<"current_location", Msg(u)>>}
            ELSE {}
        m1 == IF collected_data # {} THEN UpdateCollectedData(m, o, collected_data) ELSE m
    IN  IF HasSufficientInfo(m1, o)
        THEN Out(UpdateState(m1, o, CLOSING), "anything_else", rid)
        ELSE Out(m1, "anything_more", rid)

\* ConversationFlowService._handle_emergency_conversation
HandleEmergencyConversation(m, o, u, rid) ==
    LET safety ==
            IF AnyIn(u, {"safe", "okay", "fine"})
            THEN {<<"safety_status", Lit("Driver confirmed everyone is safe")>>}
            ELSE IF AnyIn(u, {"hurt", "injured", "medical"})
            THEN { <<"injury_status", Msg(u)>>,
                   <<"safety_status", Lit("Injuries reported")>> }
            ELSE {}
        location ==
            IF AnyIn(u, {"highway", "i-", "mile", "exit", "road"})
            THEN {<<"emergency_location", Msg(u)>>}
            ELSE {}
        emergency_data == safety \cup location
        m1 == IF emergency_data # {} THEN UpdateCollectedData(m, o, emergency_data) ELSE m
        m2 == UpdateState(m1, o, ESCALATING)
        m3 == UpdateCollectedData(m2, o,
                  { <<"call_outcome", Lit("Emergency Escalation")>>,
                    <<"escalation_status", Lit("Connecting to Human Dispatcher")>> })
    IN  Out(m3, "connecting_dispatcher", rid)

\* ConversationFlowService._handle_closing
HandleClosing(m, o, u, rid) == Out(UpdateState(m, o, COMPLETED), "goodbye", rid)


\* ------------------------------------------------ the Context Store's update
\* The data attributes of a ConversationContext: hasattr(context, key) holds
\* for them (the timestamps created_at and updated_at are left out of the model).
ContextAttrs ==
    { "call_id", "agent_id", "scenario_type", "state", "context", "collected_data",
      "conversation_history", "emergency_detected", "turn_count" }

\* setattr(context, key, value) for an attribute of the context.
SetAttr(c, key, value) ==
    CASE key = "call_id"              -> [c EXCEPT !.call_id = value]
      [] key = "agent_id"             -> [c EXCEPT !.agent_id = value]
      [] key = "scenario_type"        -> [c EXCEPT !.scenario_type = value]
      [] key = "state"                -> [c EXCEPT !.state = value]
      [] key = "context"              -> [c EXCEPT !.context = value]
      [] key = "collected_data"       -> [c EXCEPT !.collected_data = value]
      [] key = "conversation_history" -> [c EXCEPT !.conversation_history = value]
      [] key = "emergency_detected"   -> [c EXCEPT !.emergency_detected = value]
      [] key = "turn_count"           -> [c EXCEPT !.turn_count = value]

\* The loop of update_conversation over **updates, a sequence of <<key, value>>
\* in keyword order: setattr for an attribute, update_context for any other key.
RECURSIVE ApplyUpdates(_, _, _)
ApplyUpdates(m, o, updates) ==
    IF updates = <<>> THEN m
    ELSE LET key   == Head(updates)[1]
             value == Head(updates)[2]
             m1 == IF key \in ContextAttrs
                   THEN [m EXCEPT !.h[o] = SetAttr(@, key, value)]
                   ELSE UpdateContext(m, o, key, value)
         IN  ApplyUpdates(m1, o, Tail(updates))

\* ConversationStateService.update_conversation: [m, d, ok] after it (found
\* tells whether the storage was called at all).  Without a
\* live context nothing changes; with one, the updates are applied to the live
\* object and the row is stored; a storage error is swallowed (the result is
\* False) with the updates already applied in memory.
UpdateConversation(a, d, m, call_id, updates, saved) ==
    LET context == GetConversation(a, call_id)
    IN  IF context = NoObject
        THEN [m |-> m, d |-> d, ok |-> FALSE, found |-> FALSE]
        ELSE LET m1 == ApplyUpdates(m, context, updates)
             IN  [m |-> m1, found |-> TRUE,
                  d |-> IF saved THEN SaveConversationState(d, m1.h, m1.ds, context) ELSE d,
                  ok |-> saved]

\* ConversationFlowService._update_conversation_context: the turn's own
\* context object o gives the values, its call id the live object to update.
UpdateConversationContext(a, d, m, o, saved) ==
    UpdateConversation(a, d, m, m.h[o].call_id,
        << <<"state", m.h[o].state>>,
           <<"context", m.h[o].context>>,
           <<"collected_data", m.h[o].collected_data>> >>,
        saved)

\* ------------------------------------------------------ response webhook
Mem == [h |-> heap, ds |-> dicts]

Done(t, resp) ==
    [tasks EXCEPT ![t].pc = "done", ![t].ctx = NoObject, ![t].result = <<resp>>]

\* process_user_message, lines 57-63: store the turn's state through the
\* Context Store, append the reply to the history, return the reply.
Complete(t, out, saved) ==
    LET o  == tasks[t].ctx
        u  == UpdateConversationContext(active, db, out.m, o, saved)
        m2 == AddMessage(u.m, o, "assistant", out.resp.response)
        g  == Collect(m2, active, Done(t, out.resp))
    IN  /\ heap' = g.h
        /\ dicts' = g.ds
        /\ db' = u.d
        /\ tasks' = Done(t, out.resp)
        /\ Collaborator(saved \/ ~u.found)
        /\ UNCHANGED <<active, enders, nTurns, nStarts, nEnds>>

\* handle_llm_response with a payload that has no call_id.
TurnWithoutCallId(t, rid) ==
    /\ tasks[t].pc \in {"idle", "done"}
    /\ nTurns' = nTurns + 1
    /\ tasks' = [tasks EXCEPT ![t] = [IdleTask EXCEPT !.pc = "done", !.event = nTurns + 1,
                                         !.response_id = rid,
                                         !.result = <<WebhookDefaultResponse(rid)>>]]
    /\ UNCHANGED <<heap, dicts, active, db, enders, nStarts, nEnds, nFailures, nAnswers>>

\* process_user_message up to its first await (lines 31-47): load the context,
\* append the utterance, run the emergency check.
TurnStart(t, call_id, u, rid) ==
    /\ tasks[t].pc \in {"idle", "done"}
    /\ nTurns' = nTurns + 1
    /\ LET context == GetConversation(active, call_id)
           task == [IdleTask EXCEPT !.event = nTurns + 1, !.call_id = call_id, !.msg = u,
                                    !.response_id = rid, !.ctx = context]
       IN  IF context = NoObject
           THEN /\ tasks' = [tasks EXCEPT ![t] =
                               [task EXCEPT !.pc = "done", !.ctx = NoObject,
                                            !.result = <<FlowDefaultResponse(rid)>>]]
                /\ UNCHANGED <<heap, dicts>>
           ELSE LET m1 == AddMessage(Mem, context, "user", u)
                    m2 == DetectEmergency(m1, context, u)
                    emergency_detected == EmergencyKeywordIn(u)
                IN  IF emergency_detected /\ m2.h[context].state # EMERGENCY_HANDLING
                    THEN LET out == HandleEmergencyDetection(m2, context, u, rid)
                         IN  /\ heap' = out.m.h
                             /\ dicts' = out.m.ds
                             /\ tasks' = [tasks EXCEPT ![t] =
                                            [task EXCEPT !.pc = "done", !.ctx = NoObject,
                                                         !.result = <<out.resp>>]]
                    ELSE /\ heap' = m2.h
                         /\ dicts' = m2.ds
                         /\ tasks' = [tasks EXCEPT ![t] = [task EXCEPT !.pc = "agent"]]
    /\ UNCHANGED <<active, db, enders, nStarts, nEnds, nFailures, nAnswers>>

\* The agent lookup gives no agent or raises: the default reply (lines 48-50
\* and 65-67); nothing is stored and no reply is appended.
TurnAgentMissing(t) ==
    /\ tasks[t].pc = "agent"
    /\ tasks' = Done(t, FlowDefaultResponse(tasks[t].response_id))
    /\ LET g == Collect(Mem, active, tasks')
       IN  heap' = g.h /\ dicts' = g.ds
    /\ Collaborator(FALSE)
    /\ UNCHANGED <<active, db, enders, nTurns, nStarts, nEnds, nAnswers>>

\* The agent lookup gives the agent: _generate_contextual_response dispatches
\* on the state the context has now.
TurnAgentFound(t) ==
    /\ tasks[t].pc = "agent"
    /\ LET o     == tasks[t].ctx
           u     == tasks[t].msg
           rid   == tasks[t].response_id
           state == heap[o].state
       IN  CASE state = INITIALIZING ->
                    LET m1 == HandleInitializationEnter(Mem, o)
                    IN  /\ heap' = m1.h
                        /\ tasks' = [tasks EXCEPT ![t].pc = "call_details"]
                        /\ UNCHANGED <<dicts, db, nFailures>>
             [] state = GREETING ->
                    \E saved \in BOOLEAN :
                        Complete(t, HandleGreetingResponse(Mem, o, u, rid), saved)
             [] state = STATUS_INQUIRY /\ ~StatusDefersToLLM(u) ->
                    \E saved \in BOOLEAN :
                        Complete(t, HandleStatusResponse(Mem, o, u, rid), saved)
             [] state = STATUS_INQUIRY /\ StatusDefersToLLM(u) ->
                    LET m1 == HandleStatusResponse(Mem, o, u, rid).m
                    IN  /\ heap' = m1.h
                        /\ tasks' = [tasks EXCEPT ![t].pc = "llm",
                                                  ![t].current_state = m1.h[o].state]
                        /\ UNCHANGED <<dicts, db, nFailures>>
             [] state = GATHERING_INFO ->
                    \E saved \in BOOLEAN :
                        Complete(t, HandleInfoGathering(Mem, o, u, rid), saved)
             [] state = EMERGENCY_HANDLING ->
                    \E saved \in BOOLEAN :
                        Complete(t, HandleEmergencyConversation(Mem, o, u, rid), saved)
             [] state = CLOSING ->
                    \E saved \in BOOLEAN :
                        Complete(t, HandleClosing(Mem, o, u, rid), saved)
             [] OTHER ->
                    /\ tasks' = [tasks EXCEPT ![t].pc = "llm",
                                              ![t].current_state = state]
                    /\ UNCHANGED <<heap, dicts, db, nFailures>>
    /\ UNCHANGED <<active, enders, nTurns, nStarts, nEnds, nAnswers>>

\* _handle_initialization after its call lookup (whose failure only changes
\* the names in the opening line).
TurnCallDetails(t) ==
    /\ tasks[t].pc = "call_details"
    /\ UNCHANGED nAnswers
    /\ \E saved \in BOOLEAN :
          Complete(t, HandleInitializationReply(Mem, tasks[t].ctx, tasks[t].response_id), saved)


\* What the text generation can answer: a JSON object with or without each of
\* "response" and "next_state" (any state name, or a name that is no state),
\* and an "emergency_detected" flag.
Absent == "absent"
LLMResponses ==
    [ response           : {"llm_text", Absent},
      next_state         : ConversationState \cup {"no_such_state", Absent},
      emergency_detected : BOOLEAN ]

\* LLMService.generate_conversation_response when the request fails inside it:
\* its own fallback, with the state name it was called with.
LLMFallback(current_state) ==
    [response |-> "tell_me_more", next_state |-> current_state, emergency_detected |-> FALSE]

\* A variant of _generate_llm_response that stores whatever next state the
\* answer names, without looking it up in ConversationState.
ApplyLLMResponseUnchecked(m, o, llm_response, rid) ==
    LET m1 == IF llm_response.next_state # Absent
              THEN UpdateState(m, o, llm_response.next_state)
              ELSE m
        m2 == IF llm_response.emergency_detected
              THEN UpdateState([m1 EXCEPT !.h[o].emergency_detected = TRUE], o,
                               EMERGENCY_DETECTED)
              ELSE m1
    IN  Out(m2,
            IF llm_response.response = Absent THEN "tell_me_more" ELSE llm_response.response,
            rid)

\* ConversationFlowService._generate_llm_response, lines 269-285, on the
\* answer llm_response.
ApplyLLMResponse(m, o, llm_response, rid) ==
    LET m1 == IF llm_response.next_state \in ConversationState
              THEN UpdateState(m, o, llm_response.next_state)
              ELSE m      \* absent, or ValueError: keep the current state
        m2 == IF llm_response.emergency_detected
              THEN UpdateState([m1 EXCEPT !.h[o].emergency_detected = TRUE], o,
                               EMERGENCY_DETECTED)
              ELSE m1
    IN  Out(m2,
            IF llm_response.response = Absent THEN "tell_me_more" ELSE llm_response.response,
            rid)

\* The text generation answers with one of the given responses.
TurnLLMAnswerFrom(t, responses) ==
    /\ tasks[t].pc = "llm"
    /\ nAnswers' = nAnswers + 1
    /\ \E llm_response \in responses, saved \in BOOLEAN :
          Complete(t, ApplyLLMResponse(Mem, tasks[t].ctx, llm_response, tasks[t].response_id),
                   saved)

\* The text generation answers.
TurnLLMAnswer(t) ==
    TurnLLMAnswerFrom(t, LLMResponses \cup {LLMFallback(tasks[t].current_state)})

\* The answer is no JSON object: _generate_llm_response catches the error and
\* gives the default reply, which the turn then stores and appends as usual.
TurnLLMError(t) ==
    /\ tasks[t].pc = "llm"
    /\ UNCHANGED nAnswers
    /\ Complete(t, [m |-> Mem, resp |-> FlowDefaultResponse(tasks[t].response_id)], FALSE)

\* ------------------------------------------------------- call-ended webhook
\* A variant of end_conversation that empties the live table instead of
\* deleting the one entry.
EndConversationClearsAll(a, d, m, call_id, saved) ==
    LET context == GetConversation(a, call_id)
    IN  IF context = NoObject
        THEN [m |-> m, a |-> a, d |-> d, ok |-> TRUE, found |-> FALSE]
        ELSE LET m1 == UpdateState(m, context, COMPLETED)
             IN  IF saved
                 THEN [m |-> m1,
                       a |-> [c \in CallIds |-> NoObject],
                       d |-> SaveConversationState(d, m1.h, m1.ds, context),
                       ok |-> TRUE, found |-> TRUE]
                 ELSE [m |-> m1, a |-> a, d |-> d, ok |-> FALSE, found |-> TRUE]

\* ConversationStateService.end_conversation: [m, a, d, ok] after it.  The
\* context goes to COMPLETED, the row is stored and the live entry deleted; a
\* storage error is caught before the deletion (the result is False).
EndConversation(a, d, m, call_id, saved) ==
    LET context == GetConversation(a, call_id)
    IN  IF context = NoObject
        THEN [m |-> m, a |-> a, d |-> d, ok |-> TRUE, found |-> FALSE]
        ELSE LET m1 == UpdateState(m, context, COMPLETED)
             IN  IF saved
                 THEN [m |-> m1,
                       a |-> [a EXCEPT ![call_id] = NoObject],
                       d |-> SaveConversationState(d, m1.h, m1.ds, context),
                       ok |-> TRUE, found |-> TRUE]
                 ELSE [m |-> m1, a |-> a, d |-> d, ok |-> FALSE, found |-> TRUE]

\* handle_call_ended, lines 87-95: the call record is updated (an error here
\* ends the webhook with HTTP 500, before end_conversation is reached); the
\* vendor fetch and the post-call analysis catch their own errors and leave
\* the Context Store alone.
CallEndedStore(call_id) ==
    /\ enders[call_id] \in {"idle", "done", "failed"}
    /\ nEnds' = nEnds + 1
    /\ \E stored \in BOOLEAN :
          /\ enders' = [enders EXCEPT ![call_id] = IF stored THEN "end" ELSE "failed"]
          /\ Collaborator(stored)
    /\ UNCHANGED <<heap, dicts, active, db, tasks, nTurns, nStarts, nAnswers>>

\* handle_call_ended, line 98: end_conversation, whose result is not looked at.
CallEndedEnd(call_id) ==
    /\ enders[call_id] = "end"
    /\ \E saved \in BOOLEAN :
          LET e == EndConversation(active, db, Mem, call_id, saved)
              g == Collect(e.m, e.a, tasks)
          IN  /\ heap' = g.h
              /\ dicts' = g.ds
              /\ active' = e.a
              /\ db' = e.d
              /\ Collaborator(saved \/ ~e.found)
    /\ enders' = [enders EXCEPT ![call_id] = "done"]
    /\ UNCHANGED <<tasks, nTurns, nStarts, nEnds, nAnswers>>

\* ------------------------------------------------------------ specification
\* No webhook is between two of its steps.
Quiet ==
    /\ \A t \in Tasks : tasks[t].pc \in {"idle", "done"}
    /\ \A c \in CallIds : enders[c] # "end"

\* The deliveries of events for the calls cs, to the task slots ts, with the
\* utterances us and the response ids rs; when serial holds, an event is only
\* delivered once the webhooks before it have finished.
Events(cs, ts, us, rs, serial, maxTurns, maxStarts, maxEnds) ==
    \/ \E c \in cs :
          (serial => Quiet) /\ nStarts < maxStarts /\ CallStarted(c) /\ UNCHANGED aux
    \/ \E t \in ts, rid \in rs :
          (serial => Quiet) /\ nTurns < maxTurns /\ TurnWithoutCallId(t, rid) /\ UNCHANGED aux
    \/ \E t \in ts, c \in cs, u \in us, rid \in rs :
          (serial => Quiet) /\ nTurns < maxTurns /\ TurnStart(t, c, u, rid) /\ UNCHANGED aux
    \/ \E c \in cs :
          (serial => Quiet) /\ nEnds < maxEnds /\ CallEndedStore(c) /\ UNCHANGED aux

\* The later steps of the webhooks in flight.
Resumes ==
    \/ \E t \in Tasks : TurnAgentMissing(t) /\ UNCHANGED aux
    \/ \E t \in Tasks : TurnAgentFound(t) /\ UNCHANGED aux
    \/ \E t \in Tasks : TurnCallDetails(t) /\ UNCHANGED aux
    \/ \E t \in Tasks : nAnswers < MaxAnswers /\ TurnLLMAnswer(t) /\ UNCHANGED aux
    \/ \E t \in Tasks : TurnLLMError(t) /\ UNCHANGED aux
    \/ \E c \in CallIds : CallEndedEnd(c) /\ UNCHANGED aux

\* One call whose events arrive one after the other, each webhook finishing
\* before the next event is delivered.
Next ==
    \/ Events({"c1"}, {1}, Utterances, ResponseIds, TRUE, MaxTurns, MaxStarts, MaxEnds)
    \/ Resumes

Spec == Init /\ [][Next]_vars

\* One call whose webhooks overlap: an event is delivered while earlier
\* webhooks wait for their collaborators.
NextRace ==
    \/ Events({"c1"}, Tasks, Utterances, {1}, FALSE, RaceTurns, RaceStarts, MaxEnds)
    \/ Resumes

SpecRace == Init /\ [][NextRace]_vars

\* One call whose turns arrive one after the other, with the utterances that
\* tell the scripted branches and the two keyword lists apart.
ScriptedUtterances == {"u_arrived", "u_here", "u_problem", "u_crash"}

NextScripted ==
    \/ Events({"c1"}, {1}, ScriptedUtterances, {1}, TRUE, ScriptedTurns, RaceStarts, MaxEnds)
    \/ Resumes

SpecScripted == Init /\ [][NextScripted]_vars

\* One call whose turns arrive one after the other, checked for progress: the
\* agent and call lookups always come back (with a result or an error), while
\* nothing in generate_conversation_response or _generate_llm_response bounds
\* the wait for the text generation, so no step of it is ever forced.
NextLive ==
    \/ Events({"c1"}, {1}, {"u_yes", "u_crash"}, {1}, TRUE, LiveTurns, RaceStarts, MaxEnds)
    \/ Resumes

LookupsReturn ==
    \E t \in Tasks :
        (TurnAgentMissing(t) \/ TurnAgentFound(t) \/ TurnCallDetails(t)) /\ UNCHANGED aux

SpecLive == Init /\ [][NextLive]_vars /\ WF_vars(LookupsReturn)


\* ---------------------------------------------------------- trigger detector
\* NLPService.emergency_keywords
nlp_emergency_keywords ==
    { "emergency", "accident", "crash", "collision", "blowout", "breakdown",
      "medical", "injured", "hurt", "sick", "hospital", "ambulance",
      "fire", "smoke", "explosion", "leak", "hazmat", "dangerous",
      "stuck", "stranded", "disabled", "mechanical", "engine", "flat tire",
      "help", "urgent", "critical", "serious", "problem", "trouble" }

\* NLPService.detect_emergency_trigger
DetectEmergencyTrigger(u) == AnyIn(u, nlp_emergency_keywords)

\* NLPService.extract_emergency_keywords, as a set
ExtractEmergencyKeywords(u) == Words(u) \cap nlp_emergency_keywords

\* ------------------------------------------------------ extraction pipeline
\* A transcript is known by the vocabulary phrases its lower-cased text holds
\* as substrings and by what the location and ETA patterns find in it.
\*   t_arrived "I'm arrived at the dock, unloading now"
\*   t_pod     "Arrived. Got the paperwork signed"
\*   t_shift   "Blowout on I-80, load shifted"
\*   t_empty   ""
Transcripts == {"t_arrived", "t_pod", "t_shift", "t_empty"}

\* Two longer transcripts without a vocabulary phrase:
\*   t_medium  "yeah um okay so uh well you know I mean sure thing boss"
\*   t_long    t_medium five times over
LongTranscripts == {"t_medium", "t_long"}

Phrases(tr) ==
    CASE tr = "t_arrived" -> {"arrived", "at the dock", "at the", "unloading", "loading", "dock"}
      [] tr = "t_pod"     -> {"arrived", "paperwork"}
      [] tr = "t_shift"   -> {"blowout", "load shifted"}
      [] OTHER            -> {}

\* any(phrase in transcript_lower for phrase in ps)
AnyPhrase(tr, ps) == Phrases(tr) \cap ps # {}

\* JSON and Python values are written as strings: None as "null", the booleans
\* as "true" and "false"; confidence scores are hundredths.
Null == "null"
Bool(b) == IF b THEN "true" ELSE "false"

\* dict.get(key), and the truth value Python gives a value.
Get(d, key) == IF key \in DOMAIN d THEN d[key] ELSE Null
Truthy(v) == v \notin {Null, "false", ""}

\* d with d[key] = value, whether or not d has the key.
Put(d, key, value) ==
    [k \in DOMAIN d \cup {key} |-> IF k = key THEN value ELSE d[k]]

\* NLPService._extract_location: the first match of the location patterns
\* (the case-blind "City, ST" pattern takes any word followed by two letters).
ExtractLocation(tr) ==
    CASE tr = "t_arrived" -> "arrived at"
      [] tr = "t_pod"     -> "Arrived"
      [] tr = "t_shift"   -> "I-80"
      [] tr \in LongTranscripts -> "yeah um"
      [] OTHER            -> Null

\* NLPService._extract_eta: none of the transcripts holds a time.
ExtractEta(tr) == Null

\* NLPService._extract_delay_reason
ExtractDelayReason(tr) ==
    IF AnyPhrase(tr, {"traffic", "congestion", "jam"}) THEN "Traffic"
    ELSE IF AnyPhrase(tr, {"weather", "rain", "snow", "fog", "storm"}) THEN "Weather"
    ELSE IF AnyPhrase(tr, {"mechanical", "breakdown", "engine", "tire"}) THEN "Mechanical"
    ELSE IF AnyPhrase(tr, {"loading", "waiting", "dock", "appointment"}) THEN "Loading"
    ELSE IF AnyPhrase(tr, {"delayed", "late", "behind"}) THEN "Other"
    ELSE Null

\* NLPService._rule_based_extract_checkin
RuleBasedExtractCheckin(tr) ==
    [ call_outcome |->
          IF AnyPhrase(tr, {"arrived", "here", "at the dock", "at destination"})
          THEN "Arrival Confirmation"
          ELSE IF AnyPhrase(tr, {"driving", "on the road", "en route", "traveling"})
          THEN "In-Transit Update"
          ELSE Null,
      driver_status |->
          IF AnyPhrase(tr, {"driving", "on the road"}) THEN "Driving"
          ELSE IF AnyPhrase(tr, {"delayed", "late", "behind", "stuck"}) THEN "Delayed"
          ELSE IF AnyPhrase(tr, {"arrived", "here", "at the"}) THEN "Arrived"
          ELSE IF AnyPhrase(tr, {"unloading", "offloading", "door"}) THEN "Unloading"
          ELSE Null,
      current_location |-> ExtractLocation(tr),
      eta |-> ExtractEta(tr),
      delay_reason |-> ExtractDelayReason(tr),
      unloading_status |-> Null,
      pod_reminder_acknowledged |->
          Bool(AnyPhrase(tr, {"pod", "proof of delivery", "paperwork", "documents"})),
      extraction_method |-> "rule_based",
      confidence_score |-> 60 ]

\* NLPService._rule_based_extract_emergency
RuleBasedExtractEmergency(tr) ==
    [ call_outcome |-> "Emergency Escalation",
      emergency_type |->
          IF AnyPhrase(tr, {"accident", "crash", "collision"}) THEN "Accident"
          ELSE IF AnyPhrase(tr, {"breakdown", "mechanical", "engine", "blowout"}) THEN "Breakdown"
          ELSE IF AnyPhrase(tr, {"medical", "injured", "hurt", "sick"}) THEN "Medical"
          ELSE "Other",
      safety_status |->
          IF AnyPhrase(tr, {"everyone is safe", "we're safe", "no injuries"})
          THEN "Everyone is safe"
          ELSE IF AnyPhrase(tr, {"someone is hurt", "injured", "need ambulance"})
          THEN "Injuries reported"
          ELSE Null,
      injury_status |->
          IF AnyPhrase(tr, {"injured", "hurt", "bleeding", "unconscious"})
          THEN "Injuries reported"
          ELSE "No injuries reported",
      emergency_location |-> ExtractLocation(tr),
      load_secure |-> Bool(~AnyPhrase(tr, {"load shifted", "cargo damaged", "spilled"})),
      escalation_status |-> "Connected to Human Dispatcher",
      extraction_method |-> "rule_based",
      confidence_score |-> 70 ]

\* What the generative model sends back for a transcript: no usable answer
\* (error, time-out, text that is not a JSON object) or a JSON object.
GenerativeAnswers ==
    { [ok |-> FALSE, data |-> [k \in {} |-> Null]],
      [ok |-> TRUE, data |->
          [ call_outcome |-> "Arrival Confirmation", driver_status |-> "Unloading",
            current_location |-> "dock 5", eta |-> Null, delay_reason |-> Null,
            unloading_status |-> "in a door", pod_reminder_acknowledged |-> "false" ]],
      [ok |-> TRUE, data |->
          [ call_outcome |-> "Emergency Escalation", emergency_type |-> "Breakdown",
            safety_status |-> Null, injury_status |-> "", emergency_location |-> "I-80",
            load_secure |-> "false", escalation_status |-> "Connected to Human Dispatcher" ]],
      [ok |-> TRUE, data |->
          [ driver_status |-> "Delayed", pod_reminder_acknowledged |-> "true",
            load_secure |-> "true" ]] }

\* NLPService._openai_extract_checkin and _openai_extract_emergency, which
\* differ in their prompt only.
OpenaiExtract(answer) ==
    IF answer.ok
    THEN Put(Put(answer.data, "extraction_method", "openai"), "confidence_score", 90)
    ELSE [extraction_method |-> "openai_failed", confidence_score |-> 0, error |-> "error"]

Min(a, b) == IF a < b THEN a ELSE b

\* The first branch of NLPService._combine_extraction_results.
OpenaiPrimary(openai_result, rule_based_result) ==
    LET fill == DOMAIN rule_based_result \ {"extraction_method", "confidence_score"}
        combined ==
            [ key \in DOMAIN openai_result \cup fill |->
                IF key \in fill /\ ~Truthy(Get(openai_result, key))
                THEN rule_based_result[key]
                ELSE openai_result[key] ]
    IN  Put(combined, "extraction_method", "openai_primary")

\* The second branch of NLPService._combine_extraction_results.
RuleBasedPrimary(openai_result, rule_based_result) ==
    LET fill == DOMAIN openai_result \ {"extraction_method", "confidence_score", "error"}
        combined ==
            [ key \in DOMAIN rule_based_result \cup fill |->
                IF key \in fill /\ ~Truthy(Get(rule_based_result, key))
                THEN openai_result[key]
                ELSE rule_based_result[key] ]
    IN  Put(Put(combined, "extraction_method", "rule_based_primary"),
            "confidence_score", Min(80, IF "confidence_score" \in DOMAIN combined
                                        THEN combined["confidence_score"] ELSE 60))

\* A variant of _combine_extraction_results whose confidence score falls with
\* the time of the run.
CombineExtractionResultsAging(openai_result, rule_based_result, scenario_type, now) ==
    LET combined == RuleBasedPrimary(openai_result, rule_based_result)
    IN  Put(Put(Put(combined, "confidence_score", 80 - now), "extracted_at", now),
            "scenario_type", scenario_type)

\* NLPService._combine_extraction_results; now is datetime.utcnow().
CombineExtractionResults(openai_result, rule_based_result, scenario_type, now) ==
    LET confidence == IF "confidence_score" \in DOMAIN openai_result
                      THEN openai_result["confidence_score"] ELSE 0
        combined == IF confidence > 80
                    THEN OpenaiPrimary(openai_result, rule_based_result)
                    ELSE RuleBasedPrimary(openai_result, rule_based_result)
    IN  Put(Put(combined, "extracted_at", now), "scenario_type", scenario_type)

\* The rule-based extractor of a scenario type.
RuleBasedExtract(tr, scenario_type) ==
    IF scenario_type = "check_in"
    THEN RuleBasedExtractCheckin(tr)
    ELSE RuleBasedExtractEmergency(tr)

\* NLPService.extract_structured_data with _extract_checkin_data and
\* _extract_emergency_data.
NlpExtractStructuredData(tr, scenario_type, answer, now) ==
    IF scenario_type \in {"check_in", "emergency"}
    THEN CombineExtractionResults(OpenaiExtract(answer),
                                  RuleBasedExtract(tr, scenario_type), scenario_type, now)
    ELSE [error |-> "Unknown scenario type", confidence_score |-> 0]

storeVars == <<heap, dicts, active, db, tasks, enders, nTurns, nStarts, nEnds, nFailures,
               nAnswers>>

\* One reconciliation: the two extractor results and the combined result.
Call(openai_result, rule_based_result, out) ==
    [openai |-> openai_result, rule |-> rule_based_result, out |-> out]

\* A run of the pipeline on the transcript.
ExtractRun ==
    /\ Len(ext.runs) < MaxRuns
    /\ Len(ext.calls) < MaxCalls
    /\ LET out == NlpExtractStructuredData(ext.transcript, ext.scenario_type, ext.answer,
                                           ext.clock)
       IN  ext' = [ext EXCEPT
                      !.runs = Append(@, out),
                      !.clock = @ + 1,
                      !.calls = IF ext.scenario_type \in {"check_in", "emergency"}
                                THEN Append(@, Call(OpenaiExtract(ext.answer),
                                                    RuleBasedExtract(ext.transcript,
                                                                     ext.scenario_type),
                                                    out))
                                ELSE @]
    /\ UNCHANGED <<storeVars, analysis, walk, reg, upd, proc>>

\* The confidence scores a generative result is given to the reconciliation
\* with.
Confidences == {0, 80, 85, 90}

\* A reconciliation of a generative result of any confidence with the
\* rule-based result for the transcript.
CombineRun ==
    /\ Len(ext.calls) < MaxCalls
    /\ ext.answer.ok
    /\ ext.scenario_type \in {"check_in", "emergency"}
    /\ \E confidence \in Confidences :
          LET openai_result == Put(OpenaiExtract(ext.answer), "confidence_score", confidence)
              rule_based_result == RuleBasedExtract(ext.transcript, ext.scenario_type)
          IN  ext' = [ext EXCEPT
                         !.clock = @ + 1,
                         !.calls = Append(@, Call(openai_result, rule_based_result,
                                                  CombineExtractionResults(
                                                      openai_result, rule_based_result,
                                                      ext.scenario_type, ext.clock)))]
    /\ UNCHANGED <<storeVars, analysis, walk, reg, upd, proc>>

InitExtract ==
    /\ InitStore
    /\ InitAnalysis
    /\ InitWalk
    /\ InitReg
    /\ InitUpd
    /\ InitProc
    /\ ext \in { [ExtIdle EXCEPT !.transcript = tr, !.scenario_type = st, !.answer = a] :
                 tr \in Transcripts, st \in {"check_in", "emergency", "other"},
                 a \in GenerativeAnswers }

NextExtract ==
    \/ ExtractRun
    \/ CombineRun

SpecExtract == InitExtract /\ [][NextExtract]_vars

\* ------------------------------------------------------- post-call analysis
\* len(transcript.split())
WordCount(tr) ==
    CASE tr = "t_arrived" -> 7
      [] tr = "t_pod"     -> 5
      [] tr = "t_shift"   -> 5
      [] tr = "t_medium"  -> 13
      [] tr = "t_long"    -> 65
      [] OTHER            -> 0

\* round(n / d * 100) for the hundredths of round(n / d, 2), ties to even.
RoundHundredths(n, d) ==
    LET q == (100 * n) \div d
        r == (100 * n) % d
    IN  IF 2 * r < d THEN q
        ELSE IF 2 * r > d THEN q + 1
        ELSE IF q % 2 = 0 THEN q ELSE q + 1

\* A variant of _calculate_confidence that raises the score of a long
\* transcript by a tenth without the cap of line 272.
CalculateConfidenceUncapped(extracted_data, tr) ==
    LET total_fields  == Cardinality(DOMAIN extracted_data)
        filled_fields == Cardinality({k \in DOMAIN extracted_data :
                                         Truthy(extracted_data[k])})
    IN  IF total_fields = 0 THEN 0
        ELSE IF WordCount(tr) < 10 THEN RoundHundredths(filled_fields, 2 * total_fields)
        ELSE IF WordCount(tr) > 50
        THEN RoundHundredths(11 * filled_fields, 10 * total_fields)
        ELSE RoundHundredths(filled_fields, total_fields)

\* LLMService._calculate_confidence, in hundredths.
CalculateConfidence(extracted_data, tr) ==
    LET total_fields  == Cardinality(DOMAIN extracted_data)
        filled_fields == Cardinality({k \in DOMAIN extracted_data :
                                         Truthy(extracted_data[k])})
    IN  IF total_fields = 0 THEN 0
        ELSE IF WordCount(tr) < 10 THEN RoundHundredths(filled_fields, 2 * total_fields)
        ELSE IF WordCount(tr) > 50
        THEN RoundHundredths(Min(11 * filled_fields, 10 * total_fields), 10 * total_fields)
        ELSE RoundHundredths(filled_fields, total_fields)

\* LLMService.extract_structured_data (the time stamp left out).
LlmExtractStructuredData(tr, scenario_type, answer) ==
    IF answer.ok
    THEN [ extracted_data |-> answer.data,
           confidence_score |-> CalculateConfidence(answer.data, tr),
           model_used |-> "gpt-4",
           scenario_type |-> scenario_type ]
    ELSE [ extracted_data |-> [k \in {} |-> Null], confidence_score |-> 0,
           error |-> "error" ]

\* A run of LLMService.extract_structured_data on the transcript; its scenario
\* type is a member of ScenarioType.
LlmExtractRun ==
    /\ Len(ext.runs) < MaxRuns
    /\ ext.scenario_type \in {"check_in", "emergency"}
    /\ ext' = [ext EXCEPT
                  !.runs = Append(@, LlmExtractStructuredData(ext.transcript,
                                                              ext.scenario_type, ext.answer)),
                  !.clock = @ + 1]
    /\ UNCHANGED <<storeVars, analysis, walk, reg, upd, proc>>

\* Transcripts of every length class of _calculate_confidence, with every
\* scenario type and generative answer.
InitConfidence ==
    /\ InitStore
    /\ InitAnalysis
    /\ InitWalk
    /\ InitReg
    /\ InitUpd
    /\ InitProc
    /\ ext \in { [ExtIdle EXCEPT !.transcript = tr, !.scenario_type = st, !.answer = a] :
                 tr \in Transcripts \cup LongTranscripts,
                 st \in {"check_in", "emergency", "other"},
                 a \in GenerativeAnswers }

\* Both extraction pipelines on one transcript.
NextConfidence ==
    \/ ExtractRun
    \/ LlmExtractRun

SpecConfidence == InitConfidence /\ [][NextConfidence]_vars

\* No call-ended webhook is between two of its steps.
EndedQuiet == \A c \in CallIds : enders[c] \in {"idle", "done", "failed"}

\* handle_call_ended, lines 79-92: the call record is updated with the status
\* and the transcript of the payload (an error ends the webhook with HTTP
\* 500); the vendor fetch catches its own errors.
CallEndedReceive(call_id, tr) ==
    /\ EndedQuiet
    /\ nEnds' = nEnds + 1
    /\ \E stored \in BOOLEAN :
          /\ enders' = [enders EXCEPT ![call_id] = IF stored THEN "scenario" ELSE "failed"]
          /\ Collaborator(stored)
    /\ analysis' = [analysis EXCEPT ![call_id].transcript = tr,
                                    ![call_id].scenario_type = "none"]
    /\ UNCHANGED <<heap, dicts, active, db, tasks, nTurns, nStarts, nAnswers, ext, walk, reg, upd, proc>>

\* _trigger_call_analysis, lines 199-209: the scenario type of the live
\* context, or without one that of the call's agent, or DRIVER_CHECKIN when the
\* call has no agent; a lookup that raises ends the analysis (line 223).
AnalysisScenario(call_id) ==
    /\ enders[call_id] = "scenario"
    /\ LET context == GetConversation(active, call_id)
       IN  IF context # NoObject
           THEN /\ analysis' = [analysis EXCEPT
                                   ![call_id].scenario_type = heap[context].scenario_type]
                /\ enders' = [enders EXCEPT ![call_id] = "extract"]
                /\ UNCHANGED nFailures
           ELSE \/ \E scenario_type \in ScenarioTypes :
                      /\ analysis' = [analysis EXCEPT
                                         ![call_id].scenario_type = scenario_type]
                      /\ enders' = [enders EXCEPT ![call_id] = "extract"]
                      /\ Collaborator(TRUE)
                \/ /\ enders' = [enders EXCEPT ![call_id] = "end"]
                   /\ Collaborator(FALSE)
                   /\ UNCHANGED analysis
    /\ UNCHANGED <<heap, dicts, active, db, tasks, nTurns, nStarts, nEnds, nAnswers, ext, walk, reg, upd, proc>>

\* _trigger_call_analysis, lines 211-219: the extraction and the storing of
\* its result, whose error is caught at line 223.
AnalysisExtract(call_id) ==
    /\ enders[call_id] = "extract"
    /\ \E answer \in GenerativeAnswers, stored \in BOOLEAN :
          LET analysis_result == LlmExtractStructuredData(analysis[call_id].transcript,
                                                          analysis[call_id].scenario_type,
                                                          answer)
          IN  /\ analysis' = [analysis EXCEPT
                                 ![call_id].stored =
                                     IF stored THEN Append(@, analysis_result) ELSE @]
              /\ Collaborator(stored)
    /\ enders' = [enders EXCEPT ![call_id] = "end"]
    /\ UNCHANGED <<heap, dicts, active, db, tasks, nTurns, nStarts, nEnds, nAnswers, ext, walk, reg, upd, proc>>

\* The calls that start and end, with every step of the call-ended webhook.
NextEnded ==
    \/ \E c \in {"c1"} : EndedQuiet /\ nStarts < RaceStarts /\ CallStarted(c) /\ UNCHANGED aux
    \/ \E c \in {"c1"}, tr \in Transcripts : nEnds < EndedEnds /\ CallEndedReceive(c, tr)
    \/ \E c \in CallIds : AnalysisScenario(c)
    \/ \E c \in CallIds : AnalysisExtract(c)
    \/ \E c \in CallIds : CallEndedEnd(c) /\ UNCHANGED aux

SpecEnded == Init /\ [][NextEnded]_vars

\* ------------------------------------- a next state that is no state
\* The answers of the text generation that name a next state which is not a
\* member of ConversationState.
UnknownStateResponses == { r \in LLMResponses : r.next_state = "no_such_state" }

\* The later steps of the webhooks in flight when every answer of the text
\* generation names such a next state.
ResumesUnknownState ==
    \/ \E t \in Tasks : TurnAgentMissing(t) /\ UNCHANGED aux
    \/ \E t \in Tasks : TurnAgentFound(t) /\ UNCHANGED aux
    \/ \E t \in Tasks : TurnCallDetails(t) /\ UNCHANGED aux
    \/ \E t \in Tasks :
          nAnswers < MaxAnswers /\ TurnLLMAnswerFrom(t, UnknownStateResponses) /\ UNCHANGED aux
    \/ \E t \in Tasks : TurnLLMError(t) /\ UNCHANGED aux
    \/ \E c \in CallIds : CallEndedEnd(c) /\ UNCHANGED aux

NextUnknownState ==
    \/ Events({"c1"}, {1}, {"u_yes", "u_crash"}, {1}, TRUE, LiveTurns, RaceStarts, MaxEnds)
    \/ ResumesUnknownState

SpecUnknownState == Init /\ [][NextUnknownState]_vars

\* -------------------------------- a call without keyword or suggestion
\* The utterances without a keyword of detect_emergency that tell the branches
\* of the scripted handlers apart.
ForwardUtterances == {"u_arrived", "u_yes", "u_door", "u_driving"}

\* The answers of the text generation that name no next state and flag no
\* emergency.
SilentResponses ==
    { r \in LLMResponses : r.next_state = Absent /\ ~r.emergency_detected }

ResumesForward ==
    \/ \E t \in Tasks : TurnAgentMissing(t) /\ UNCHANGED aux
    \/ \E t \in Tasks : TurnAgentFound(t) /\ UNCHANGED aux
    \/ \E t \in Tasks : TurnCallDetails(t) /\ UNCHANGED aux
    \/ \E t \in Tasks :
          nAnswers < MaxAnswers /\ TurnLLMAnswerFrom(t, SilentResponses) /\ UNCHANGED aux
    \/ \E t \in Tasks : TurnLLMError(t) /\ UNCHANGED aux
    \/ \E c \in CallIds : CallEndedEnd(c) /\ UNCHANGED aux

NextForward ==
    \/ Events({"c1"}, {1}, ForwardUtterances, {1}, TRUE, ForwardTurns, RaceStarts, MaxEnds)
    \/ ResumesForward

SpecForward == Init /\ [][NextForward]_vars

\* ------------------------------------------------------- scenario registry
\* ScenarioManager.SCENARIOS (its keys)
SCENARIOS == {"driver_checkin", "emergency_protocol"}

\* Scenario types an agent record may carry; "check_in" (agent_service.py) is not
\* a key of the registry.
AgentScenarioTypes == SCENARIOS \cup {"check_in"}

\* A variant of the driver check-in states whose last edge to the completion
\* state misspells its destination.
DriverCheckinStatesDangling ==
    << [name |-> "greeting_and_identification",
        edges |-> <<"status_assessment", "emergency_protocol">>],
       [name |-> "status_assessment",
        edges |-> <<"location_and_eta", "emergency_protocol">>],
       [name |-> "location_and_eta",
        edges |-> <<"arrival_and_unloading", "delay_management", "emergency_protocol">>],
       [name |-> "delay_management",
        edges |-> <<"arrival_and_unloading", "emergency_protocol">>],
       [name |-> "arrival_and_unloading",
        edges |-> <<"call_complete", "emergency_protocol">>],
       [name |-> "call_completion", edges |-> <<>>],
       [name |-> "emergency_protocol", edges |-> <<>>] >>

\* DriverCheckinScenario.get_states_config: the states in list order, each
\* with the destination_state_name of its edges (none where the state has no
\* "edges" key).
DriverCheckinStates ==
    << [name |-> "greeting_and_identification",
        edges |-> <<"status_assessment", "emergency_protocol">>],
       [name |-> "status_assessment",
        edges |-> <<"location_and_eta", "emergency_protocol">>],
       [name |-> "location_and_eta",
        edges |-> <<"arrival_and_unloading", "delay_management", "emergency_protocol">>],
       [name |-> "delay_management",
        edges |-> <<"arrival_and_unloading", "emergency_protocol">>],
       [name |-> "arrival_and_unloading",
        edges |-> <<"call_completion", "emergency_protocol">>],
       [name |-> "call_completion", edges |-> <<>>],
       [name |-> "emergency_protocol", edges |-> <<>>] >>

\* A variant of the emergency-protocol states in which the first state can go
\* straight to the completion state.
EmergencyProtocolStatesShortcut ==
    << [name |-> "initial_assessment",
        edges |-> <<"emergency_response", "routine_logistics", "call_completion">>],
       [name |-> "emergency_response", edges |-> <<"emergency_escalation">>],
       [name |-> "emergency_escalation", edges |-> <<>>],
       [name |-> "routine_logistics",
        edges |-> <<"emergency_response", "call_completion">>],
       [name |-> "call_completion", edges |-> <<>>] >>

\* EmergencyProtocolScenario.get_states_config
EmergencyProtocolStates ==
    << [name |-> "initial_assessment",
        edges |-> <<"emergency_response", "routine_logistics">>],
       [name |-> "emergency_response", edges |-> <<"emergency_escalation">>],
       [name |-> "emergency_escalation", edges |-> <<>>],
       [name |-> "routine_logistics",
        edges |-> <<"emergency_response", "call_completion">>],
       [name |-> "call_completion", edges |-> <<>>] >>

\* ScenarioManager.get_scenario_config(scenario_type)["states"], for a type in
\* the registry
GetStatesConfig(scenario_type) ==
    IF scenario_type = "driver_checkin" THEN DriverCheckinStates
    ELSE EmergencyProtocolStates

\* The names of the states of a configuration.
StateNames(states) == { states[i].name : i \in DOMAIN states }

\* The destinations of the edges of the state called name; a name that is not
\* a state has none.
EdgesOf(states, name) ==
    UNION { { states[i].edges[j] : j \in DOMAIN states[i].edges } :
            i \in { k \in DOMAIN states : states[k].name = name } }

\* Every destination_state_name in the configuration.
EdgeTargets(states) == UNION { EdgesOf(states, n) : n \in StateNames(states) }

\* States without an outgoing transition.
TerminalStates(states) == { n \in StateNames(states) : EdgesOf(states, n) = {} }

\* llm_config["starting_state"] = scenario_config["states"][0]["name"]
StartingState(states) == states[1].name

\* The states reached from the set seen by following edges, any number of times.
RECURSIVE ReachableFrom(_, _)
ReachableFrom(states, seen) ==
    LET next == seen \cup (UNION { EdgesOf(states, n) : n \in seen } \cap StateNames(states))
    IN  IF next = seen THEN seen ELSE ReachableFrom(states, next)

Reachable(states) == ReachableFrom(states, {StartingState(states)})

\* ScenarioManager.build_llm_config for an agent: an unknown scenario type
\* raises ValueError and configures nothing; otherwise the states of the
\* scenario are installed and the call starts in the first one.
BuildLlmConfig(w, scenario_type) ==
    /\ walk[w] = WalkIdle
    /\ walk' = [walk EXCEPT ![w] =
                  IF scenario_type \notin SCENARIOS
                  THEN [WalkIdle EXCEPT !.scenario_type = "error"]
                  ELSE [ scenario_type  |-> scenario_type,
                         starting_state |-> StartingState(GetStatesConfig(scenario_type)),
                         trail          |-> <<StartingState(GetStatesConfig(scenario_type))>> ]]
    /\ UNCHANGED <<storeVars, ext, analysis, reg, upd, proc>>

\* The call of agent w follows one edge of its current state, to the state the
\* edge names.
FollowEdge(w) ==
    /\ walk[w].scenario_type \in SCENARIOS
    /\ Len(walk[w].trail) < MaxWalk
    /\ \E dest \in EdgesOf(GetStatesConfig(walk[w].scenario_type),
                           walk[w].trail[Len(walk[w].trail)]) :
          walk' = [walk EXCEPT ![w].trail = Append(@, dest)]
    /\ UNCHANGED <<storeVars, ext, analysis, reg, upd, proc>>

\* DriverCheckinScenario.get_data_extraction_schema (its field names)
DriverCheckinSchema ==
    { "call_outcome", "driver_status", "current_location", "eta", "delay_reason",
      "unloading_status", "pod_reminder_acknowledged" }

\* EmergencyProtocolScenario.get_data_extraction_schema (its field names)
EmergencyProtocolSchema ==
    { "call_outcome", "emergency_type", "safety_status", "injury_status",
      "emergency_location", "load_secure", "escalation_status",
      "emergency_services_called" }

\* ScenarioManager.get_scenario_config(scenario_type)["data_extraction_schema"]
GetDataExtractionSchema(scenario_type) ==
    IF scenario_type = "driver_checkin" THEN DriverCheckinSchema
    ELSE EmergencyProtocolSchema

\* The state the call of agent w is in.
CurrentState(w) == walk[w].trail[Len(walk[w].trail)]

\* The calls of agents configured with the scenario.
WalkersOf(scenario_type) == { w \in Walkers : walk[w].scenario_type = scenario_type }

\* The elements of a sequence.
Range(seq) == { seq[i] : i \in DOMAIN seq }

NextWalk ==
    \/ \E w \in Walkers, st \in AgentScenarioTypes : BuildLlmConfig(w, st)
    \/ \E w \in Walkers : FollowEdge(w)

SpecWalk == Init /\ [][NextWalk]_vars

\* ------------------------------------------- scenario registry: its lookups
MaxBuilds == 2   \* calls of each registry operation on one agent record

\* DriverCheckinScenario.get_general_tools and
\* EmergencyProtocolScenario.get_general_tools: type and name of each tool.
DriverCheckinTools == << [type |-> "end_call", name |-> "end_call"] >>

EmergencyProtocolTools ==
    << [type |-> "end_call", name |-> "end_call_emergency"],
       [type |-> "end_call", name |-> "end_call"] >>

GetGeneralTools(scenario_type) ==
    IF scenario_type = "driver_checkin" THEN DriverCheckinTools ELSE EmergencyProtocolTools

\* get_general_prompt and get_begin_message of the two scenarios.
GetGeneralPrompt(scenario_type) ==
    IF scenario_type = "driver_checkin" THEN "checkin_prompt" ELSE "emergency_prompt"

GetBeginMessage(scenario_type) ==
    IF scenario_type = "driver_checkin" THEN "checkin_begin" ELSE "emergency_begin"

\* ScenarioManager.get_scenario_config: ValueError for a type that is not a
\* key of SCENARIOS, the five parts of the scenario otherwise.
GetScenarioConfig(scenario_type) ==
    IF scenario_type \notin SCENARIOS
    THEN [ raised |-> "ValueError", general_prompt |-> Absent, begin_message |-> Absent,
           states |-> <<>>, general_tools |-> <<>>, data_extraction_schema |-> {} ]
    ELSE [ raised                 |-> "none",
           general_prompt         |-> GetGeneralPrompt(scenario_type),
           begin_message          |-> GetBeginMessage(scenario_type),
           states                 |-> GetStatesConfig(scenario_type),
           general_tools          |-> GetGeneralTools(scenario_type),
           data_extraction_schema |-> GetDataExtractionSchema(scenario_type) ]

\* `not agent_data.get(field)` for a text field.
Missing(v) == v \in {Absent, ""}

\* agent_data.get(field, default) for a numeric field that holds a number or
\* is absent.
NumberOr(field, default) == IF field.given = "number" THEN field.value ELSE default

\* The messages of a sequence that are not "".
RECURSIVE Compact(_)
Compact(seq) ==
    IF seq = <<>> THEN <<>>
    ELSE IF Head(seq) = "" THEN Compact(Tail(seq))
    ELSE <<Head(seq)>> \o Compact(Tail(seq))

\* A variant of validate_scenario_agent_data without the scenario-specific
\* checks.
ValidateScenarioAgentDataCommonOnly(scenario_type, agent_data) ==
    IF scenario_type \notin SCENARIOS
    THEN [raised |-> "none", errors |-> <<"Unknown scenario type">>]
    ELSE [ raised |-> "none",
           errors |-> Compact(<< IF Missing(agent_data.name) THEN "Missing name" ELSE "",
                                 IF Missing(agent_data.general_prompt)
                                 THEN "Missing general_prompt" ELSE "",
                                 IF Missing(agent_data.voice_id) THEN "Missing voice_id" ELSE "",
                                 IF Missing(agent_data.scenario_type)
                                 THEN "Missing scenario_type" ELSE "" >>) ]

\* ScenarioManager.validate_scenario_agent_data: the list of errors, or the
\* TypeError that `None < 1.0` raises when the compared field holds None.
ValidateScenarioAgentData(scenario_type, agent_data) ==
    IF scenario_type \notin SCENARIOS
    THEN [raised |-> "none", errors |-> <<"Unknown scenario type">>]
    ELSE LET compared == IF scenario_type = "emergency_protocol"
                         THEN agent_data.responsiveness
                         ELSE agent_data.backchannel_frequency
             common == << IF Missing(agent_data.name) THEN "Missing name" ELSE "",
                          IF Missing(agent_data.general_prompt)
                          THEN "Missing general_prompt" ELSE "",
                          IF Missing(agent_data.voice_id) THEN "Missing voice_id" ELSE "",
                          IF Missing(agent_data.scenario_type)
                          THEN "Missing scenario_type" ELSE "" >>
             specific ==
                 IF scenario_type = "emergency_protocol"
                 THEN IF NumberOr(agent_data.responsiveness, 100) < 100
                      THEN "responsiveness below 1.0" ELSE ""
                 ELSE IF NumberOr(agent_data.backchannel_frequency, 80) < 50
                      THEN "backchannel_frequency below 0.5" ELSE ""
         IN  IF compared.given = "null"
             THEN [raised |-> "TypeError", errors |-> <<>>]
             ELSE [raised |-> "none", errors |-> Compact(Append(common, specific))]

\* What build_llm_config gives when it raises.
NoLlmConfig ==
    [ raised |-> "ValueError", general_prompt |-> Absent, model |-> Absent,
      begin_message |-> Absent, states |-> <<>>, starting_state |-> Absent,
      general_tools |-> <<>> ]

\* A variant of build_llm_config that always takes the opening message of the
\* scenario.
LlmConfigScenarioBegin(agent_data) ==
    IF Missing(agent_data.scenario_type) \/ agent_data.scenario_type \notin SCENARIOS
    THEN NoLlmConfig
    ELSE LET scenario_config == GetScenarioConfig(agent_data.scenario_type)
         IN  [ raised         |-> "none",
               general_prompt |-> scenario_config.general_prompt,
               model          |-> IF agent_data.model = Absent THEN "gpt-4o"
                                  ELSE agent_data.model,
               begin_message  |-> scenario_config.begin_message,
               states         |-> scenario_config.states,
               starting_state |-> scenario_config.states[1].name,
               general_tools  |-> scenario_config.general_tools ]

\* ScenarioManager.build_llm_config: ValueError without a scenario type or
\* with one that is not registered; otherwise prompt, states, starting state
\* and tools of the scenario, and the agent's opening message when it has one.
LlmConfig(agent_data) ==
    IF Missing(agent_data.scenario_type) \/ agent_data.scenario_type \notin SCENARIOS
    THEN NoLlmConfig
    ELSE LET scenario_config == GetScenarioConfig(agent_data.scenario_type)
         IN  [ raised         |-> "none",
               general_prompt |-> scenario_config.general_prompt,
               model          |-> IF agent_data.model = Absent THEN "gpt-4o"
                                  ELSE agent_data.model,
               begin_message  |-> IF ~Missing(agent_data.begin_message)
                                  THEN agent_data.begin_message
                                  ELSE scenario_config.begin_message,
               states         |-> scenario_config.states,
               starting_state |-> scenario_config.states[1].name,
               general_tools  |-> scenario_config.general_tools ]

Max(a, b) == IF a > b THEN a ELSE b

\* ScenarioManager.build_agent_config: the voice parameters of the agent with
\* the adjustments of its scenario (numbers in hundredths).
AgentConfig(agent_data, llm_id) ==
    LET backchannel_frequency == NumberOr(agent_data.backchannel_frequency, 80)
    IN  [ llm_id     |-> llm_id,
          voice_id   |-> agent_data.voice_id,
          agent_name |-> IF Missing(agent_data.name) THEN Absent ELSE agent_data.name,
          responsiveness |->
              IF agent_data.scenario_type = "emergency_protocol"
                 \/ agent_data.responsiveness.given = "absent"
              THEN Number(100)
              ELSE agent_data.responsiveness,
          backchannel_frequency |->
              IF agent_data.scenario_type = "emergency_protocol"
              THEN Min(backchannel_frequency, 60)
              ELSE IF agent_data.scenario_type = "driver_checkin"
              THEN Max(backchannel_frequency, 80)
              ELSE backchannel_frequency ]

\* The states of a configuration that handle an emergency: those the two
\* get_states_config name emergency_*.
EmergencyStateNames(states) ==
    StateNames(states) \cap {"emergency_protocol", "emergency_response", "emergency_escalation"}

\* The names of the tools of a list.
ToolNames(tools) == { tools[i].name : i \in DOMAIN tools }

\* The agent records and scenario types the registry is called with.
AgentRecords ==
    { [RegIdle.agent_data EXCEPT !.name = n, !.scenario_type = st, !.begin_message = b,
                                 !.model = md, !.responsiveness = r,
                                 !.backchannel_frequency = bf] :
        n \in {"Dispatch", Absent}, st \in AgentScenarioTypes \cup {Absent},
        b \in {"custom_begin", "", Absent}, md \in {"gpt-4", Absent},
        r \in {NoNumber, [given |-> "null", value |-> 0], Number(50), Number(100)},
        bf \in {NoNumber, Number(30), Number(80)} }

InitRegistry ==
    /\ InitStore
    /\ InitAnalysis
    /\ InitWalk
    /\ InitUpd
    /\ InitProc
    /\ ext = ExtIdle
    /\ reg \in { [RegIdle EXCEPT !.scenario_type = st, !.agent_data = a] :
                    st \in AgentScenarioTypes, a \in AgentRecords }

\* POST /scenarios/{scenario_type}/validate
ValidateRun ==
    /\ Len(reg.errors) < MaxBuilds
    /\ reg' = [reg EXCEPT !.errors =
                  Append(@, ValidateScenarioAgentData(reg.scenario_type, reg.agent_data))]
    /\ UNCHANGED <<storeVars, ext, analysis, walk, upd, proc>>

\* GET /scenarios/{scenario_type}
GetScenarioRun ==
    /\ Len(reg.configs) < MaxBuilds
    /\ reg' = [reg EXCEPT !.configs = Append(@, GetScenarioConfig(reg.scenario_type))]
    /\ UNCHANGED <<storeVars, ext, analysis, walk, upd, proc>>

\* ScenarioManager.build_llm_config called with the agent record
BuildLlmRun ==
    /\ Len(reg.llm_configs) < MaxBuilds
    /\ reg' = [reg EXCEPT !.llm_configs = Append(@, LlmConfig(reg.agent_data))]
    /\ UNCHANGED <<storeVars, ext, analysis, walk, upd, proc>>

\* ScenarioManager.build_agent_config called with the agent record
BuildAgentRun ==
    /\ Len(reg.agent_configs) < MaxBuilds
    /\ reg' = [reg EXCEPT !.agent_configs = Append(@, AgentConfig(reg.agent_data, "llm1"))]
    /\ UNCHANGED <<storeVars, ext, analysis, walk, upd, proc>>

NextRegistry ==
    \/ ValidateRun
    \/ GetScenarioRun
    \/ BuildLlmRun
    \/ BuildAgentRun

SpecRegistry == InitRegistry /\ [][NextRegistry]_vars

\* ------------------------------------------- the Context Store's update
MaxUpdates == 2   \* calls of update_conversation in a run
UpdStarts  == 2   \* call-started events, all of them before the first update

\* The keyword arguments update_conversation is called with: attributes of
\* the context ("state", "context", "collected_data") and a key that is no
\* attribute ("status"), each with the values it may be given; a dict
\* argument is written by value.
UpdateKeys == {"state", "context", "collected_data", "status"}

UpdateValues(key) ==
    CASE key = "state"          -> {GREETING, CLOSING}
      [] key = "context"        -> {EmptyDict}
      [] key = "collected_data" -> {{<<"eta", Lit("5pm")>>}}
      [] key = "status"         -> {Lit("delayed")}

KeywordArgs == UNION { { <<key, v>> : v \in UpdateValues(key) } : key \in UpdateKeys }

\* One or two keyword arguments, in the order the caller wrote them.
UpdateInputs ==
    { <<a>> : a \in KeywordArgs }
        \cup { <<p[1], p[2]>> : p \in { q \in KeywordArgs \X KeywordArgs : q[1][1] # q[2][1] } }

\* The dict arguments become objects of their own: each takes a slot no live
\* context uses, and the argument becomes the reference to it.
RECURSIVE Materialise(_, _, _)
Materialise(m, used, updates) ==
    IF updates = <<>> THEN [m |-> m, updates |-> <<>>]
    ELSE IF Head(updates)[1] \in {"context", "collected_data"}
    THEN LET k    == Lowest(DictSlots \ used)
             rest == Materialise([m EXCEPT !.ds[k] = Head(updates)[2]], used \cup {k},
                                 Tail(updates))
         IN  [m |-> rest.m, updates |-> << <<Head(updates)[1], k>> >> \o rest.updates]
    ELSE LET rest == Materialise(m, used, Tail(updates))
         IN  [m |-> rest.m, updates |-> <<Head(updates)>> \o rest.updates]

\* conversation_service.update_conversation(call_id, **updates)
UpdateRun(call_id, updates, saved) ==
    /\ upd.n < MaxUpdates
    /\ LET mat == Materialise(Mem, LiveDicts(heap, LiveObjects(active, tasks)), updates)
           u   == UpdateConversation(active, db, mat.m, call_id, mat.updates, saved)
           g   == Collect(u.m, active, tasks)
       IN  /\ heap' = g.h
           /\ dicts' = g.ds
           /\ db' = u.d
           /\ Collaborator(saved \/ ~u.found)
    /\ upd' = [n |-> upd.n + 1, call_id |-> call_id, updates |-> updates]
    /\ UNCHANGED <<active, tasks, enders, nTurns, nStarts, nEnds, nAnswers, ext, analysis,
                   walk, reg, proc>>

NextUpdate ==
    \/ \E c \in CallIds : upd.n = 0 /\ nStarts < UpdStarts /\ CallStarted(c) /\ UNCHANGED aux
    \/ \E c \in CallIds, updates \in UpdateInputs, saved \in BOOLEAN :
          UpdateRun(c, updates, saved)

SpecUpdate == Init /\ [][NextUpdate]_vars

\* --------------------------------------------------------------- two calls
TwoCallTurns  == 2   \* turn events delivered over a run with two calls
TwoCallStarts == 2   \* call-started events delivered over such a run
TwoCallUpdates == 1  \* updates from outside a turn over such a run

\* update_conversation with one keyword, an attribute or another key.
SingleUpdates == { <<a>> : a \in { b \in KeywordArgs : b[1] \in {"state", "status"} } }

\* The answers of the text generation: one that names a next state and one
\* that flags an emergency.
TwoCallResponses ==
    { r \in LLMResponses : /\ r.response = "llm_text"
                           /\ \/ r.next_state = CLOSING /\ ~r.emergency_detected
                              \/ r.next_state = Absent /\ r.emergency_detected }

ResumesTwoCalls ==
    \/ \E t \in Tasks : TurnAgentMissing(t) /\ UNCHANGED aux
    \/ \E t \in Tasks : TurnAgentFound(t) /\ UNCHANGED aux
    \/ \E t \in Tasks : TurnCallDetails(t) /\ UNCHANGED aux
    \/ \E t \in Tasks :
          nAnswers < MaxAnswers /\ TurnLLMAnswerFrom(t, TwoCallResponses) /\ UNCHANGED aux
    \/ \E t \in Tasks : TurnLLMError(t) /\ UNCHANGED aux
    \/ \E c \in CallIds : CallEndedEnd(c) /\ UNCHANGED aux

\* Two calls whose events of every kind are delivered in any order, an event
\* of one call while the webhooks of the other wait for their collaborators;
\* the turns of a call are taken by one webhook slot.
NextTwoCalls ==
    \/ Events({"c1"}, {1}, {"u_yes"}, {1}, FALSE, TwoCallTurns, TwoCallStarts, MaxEnds)
    \/ Events({"c2"}, {2}, {"u_yes"}, {1}, FALSE, TwoCallTurns, TwoCallStarts, MaxEnds)
    \/ ResumesTwoCalls
    \/ \E c \in CallIds, updates \in SingleUpdates, saved \in BOOLEAN :
          upd.n < TwoCallUpdates /\ UpdateRun(c, updates, saved)

SpecTwoCalls == Init /\ [][NextTwoCalls]_vars

\* ---------------------------------------- post-call conversation processor
MaxProcessed == 3   \* calls of process_conversation on one payload

\* The transcript of a call-ended payload is known by the vocabulary phrases
\* its lower-cased text holds as substrings; none of these holds a match of the
\* name, load, location or time patterns.  p_null is the JSON null.
\*   p_crash   "there's been a crash, I think someone's hurt"
\*   p_stuck   "stuck behind a wreck, tell a human"
\*   p_arrived "I've arrived, all delivered"
\*   p_late    "Running late, heavy traffic"
\*   p_rude    "he is being difficult"
\*   p_plain   "Still rolling, see you soon"
ProcessorTranscripts ==
    {"p_crash", "p_stuck", "p_arrived", "p_late", "p_rude", "p_plain", "p_null"}

Said(tr) ==
    CASE tr = "p_crash"   -> {"crash", "here", "hurt"}
      [] tr = "p_stuck"   -> {"stuck", "behind", "human"}
      [] tr = "p_arrived" -> {"arrived", "delivered"}
      [] tr = "p_late"    -> {"late", "traffic"}
      [] tr = "p_rude"    -> {"being difficult"}
      [] OTHER            -> {}

\* any(word in transcript_lower for word in ws)
SaidAny(tr, ws) == Said(tr) \cap ws # {}

\* The metadata of the payload: {}, {"scenario": "emergency"},
\* {"scenario": "dispatch_checkin"}, {"scenario": "emergency_protocol"}, or
\* the JSON null.
ProcessorMetadata == {"m_empty", "m_emergency", "m_checkin", "m_protocol", "m_null"}

\* metadata.get("scenario") of a metadata dict
MetadataScenario(md) ==
    CASE md = "m_emergency" -> "emergency"
      [] md = "m_checkin"   -> "dispatch_checkin"
      [] md = "m_protocol"  -> "emergency_protocol"
      [] OTHER              -> Null

\* ConversationService.emergency_keywords, uncooperative_indicators and
\* noise_indicators
processor_emergency_keywords ==
    { "emergency", "accident", "crash", "injury", "hurt", "bleeding", "stuck",
      "broken down", "can't move", "urgent", "help", "danger" }

uncooperative_indicators ==
    { "don't want to talk", "not answering", "refusing", "hanging up", "being difficult",
      "uncooperative", "rude", "angry" }

noise_indicators ==
    { "can't hear", "unclear", "garbled", "static", "noise", "background noise",
      "cutting out", "breaking up" }

\* An AttributeError raised on the way (None has no lower() and no get()).
Raises == "raises"

\* ConversationService._detect_scenario
DetectScenario(tr, md) ==
    IF tr = "p_null" THEN Raises                       \* transcript.lower()
    ELSE IF SaidAny(tr, processor_emergency_keywords) THEN "emergency_protocol"
    ELSE IF md = "m_null" THEN Raises                  \* metadata.get("scenario")
    ELSE IF MetadataScenario(md) = "emergency" THEN "emergency_protocol"
    ELSE "dispatch_checkin"

\* ConversationService._determine_driver_status
DetermineDriverStatus(tr) ==
    IF SaidAny(tr, {"arrived", "here", "delivered", "completed"}) THEN "arrived"
    ELSE IF SaidAny(tr, {"delayed", "late", "behind", "stuck"}) THEN "delayed"
    ELSE IF SaidAny(tr, processor_emergency_keywords) THEN "emergency"
    ELSE "mid_transit"

\* ConversationService._determine_call_outcome
DetermineCallOutcome(tr, driver_status) ==
    IF SaidAny(tr, uncooperative_indicators) THEN "incomplete"
    ELSE IF driver_status = "emergency" THEN "escalated"
    ELSE "successful"

\* ConversationService._extract_delay_reason: the first reason of its list
\* that the transcript holds.
ProcessorDelayReason(tr) ==
    IF "traffic" \in Said(tr) THEN "Traffic"
    ELSE IF "construction" \in Said(tr) THEN "Construction"
    ELSE IF "weather" \in Said(tr) THEN "Weather"
    ELSE IF "accident" \in Said(tr) THEN "Accident"
    ELSE IF "breakdown" \in Said(tr) THEN "Breakdown"
    ELSE IF "loading" \in Said(tr) THEN "Loading"
    ELSE IF "unloading" \in Said(tr) THEN "Unloading"
    ELSE IF "paperwork" \in Said(tr) THEN "Paperwork"
    ELSE IF "customs" \in Said(tr) THEN "Customs"
    ELSE IF "detour" \in Said(tr) THEN "Detour"
    ELSE Null

\* ConversationService._extract_unloading_status
ExtractUnloadingStatus(tr) ==
    IF SaidAny(tr, {"unloaded", "delivered", "completed"}) THEN "Completed"
    ELSE IF SaidAny(tr, {"unloading", "delivering"}) THEN "In Progress"
    ELSE IF SaidAny(tr, {"waiting", "scheduled"}) THEN "Scheduled"
    ELSE Null

\* ConversationService._detect_special_cases, as a set
DetectSpecialCases(tr) ==
    (IF SaidAny(tr, uncooperative_indicators) THEN {"uncooperative_driver"} ELSE {})
    \cup (IF SaidAny(tr, noise_indicators) THEN {"noisy_environment"} ELSE {})
    \cup (IF {"gps", "location"} \subseteq Said(tr) THEN {"conflicting_location_data"} ELSE {})

\* ConversationService._process_dispatch_conversation; none of its steps
\* raises on a text.
ProcessDispatchConversation(tr) ==
    LET driver_status == DetermineDriverStatus(tr)
    IN  [ call_outcome |-> DetermineCallOutcome(tr, driver_status),
          driver_status |-> driver_status,
          current_location |-> Null,
          eta |-> Null,
          delay_reason |-> ProcessorDelayReason(tr),
          unloading_status |-> ExtractUnloadingStatus(tr),
          pod_reminder_acknowledged |->
              Bool(SaidAny(tr, {"yes", "acknowledged", "understood", "got it", "will do"})),
          special_cases |-> DetectSpecialCases(tr),
          scenario |-> "dispatch_checkin",
          driver_name |-> Null,
          load_number |-> Null ]

\* ConversationService._extract_emergency_type: the first type of its dict
\* with a keyword in the transcript.
ExtractEmergencyType(tr) ==
    IF SaidAny(tr, {"accident", "crash", "collision"}) THEN "Accident"
    ELSE IF SaidAny(tr, {"broken down", "not working", "mechanical"}) THEN "Breakdown"
    ELSE IF SaidAny(tr, {"hurt", "injured", "bleeding", "pain"}) THEN "Medical"
    ELSE IF SaidAny(tr, {"storm", "flood", "snow", "ice"}) THEN "Weather"
    ELSE IF SaidAny(tr, {"stuck", "blocked", "detour"}) THEN "Traffic"
    ELSE "Unknown"

\* ConversationService._process_emergency_conversation; none of its steps
\* raises on a text.
ProcessEmergencyConversation(tr) ==
    [ call_outcome |-> "escalated",
      emergency_type |-> ExtractEmergencyType(tr),
      safety_status |->
          IF SaidAny(tr, {"safe", "okay", "fine", "alright"}) THEN "Safe"
          ELSE IF SaidAny(tr, {"danger", "unsafe", "risk"}) THEN "At Risk"
          ELSE "Unknown",
      injury_status |->
          IF SaidAny(tr, {"hurt", "injured", "bleeding", "pain"}) THEN "Injured"
          ELSE IF SaidAny(tr, {"fine", "okay", "not hurt"}) THEN "Not Injured"
          ELSE "Unknown",
      emergency_location |-> Null,
      load_secure |->
          IF SaidAny(tr, {"secure", "safe", "tied down"}) THEN "true"
          ELSE IF SaidAny(tr, {"loose", "falling", "unsafe"}) THEN "false"
          ELSE Null,
      escalation_status |->
          IF SaidAny(tr, {"escalated", "transferred", "human"}) THEN "Escalated to Human"
          ELSE "AI Handled",
      scenario |-> "emergency_protocol" ]

\* ConversationService.process_conversation: the result it returns; an
\* exception of _detect_scenario is caught at line 77.
ProcessConversation(tr, md) ==
    LET scenario == DetectScenario(tr, md)
    IN  IF scenario = Raises
        THEN [call_outcome |-> "failed", error |-> "error", scenario |-> "unknown"]
        ELSE IF scenario = "emergency_protocol"
        THEN ProcessEmergencyConversation(tr)
        ELSE ProcessDispatchConversation(tr)

\* handle_call_ended of the processor's webhook: process_conversation on the
\* transcript and the metadata of the payload.
ProcessRun ==
    /\ Len(proc.results) < MaxProcessed
    /\ proc' = [proc EXCEPT !.results =
                   Append(@, ProcessConversation(proc.transcript, proc.metadata))]
    /\ UNCHANGED <<storeVars, ext, analysis, walk, reg, upd>>

InitProcess ==
    /\ InitStore
    /\ InitAnalysis
    /\ InitWalk
    /\ InitReg
    /\ InitUpd
    /\ ext = ExtIdle
    /\ proc \in { [ProcIdle EXCEPT !.transcript = tr, !.metadata = md] :
                    tr \in ProcessorTranscripts, md \in ProcessorMetadata }

NextProcess == ProcessRun

SpecProcess == InitProcess /\ [][NextProcess]_vars

\* ------------------------------------------------------------------ claims
Terminal      == {COMPLETED, ESCALATING}
EmergencyPath == {EMERGENCY_DETECTED, EMERGENCY_HANDLING, ESCALATING}

\* Whether a reply asks the voice session to end the call.
EndCall(r) == IF "end_call" \in DOMAIN r THEN r.end_call ELSE FALSE

\* This step delivers a turn event to slot t; this step returns slot t's reply.
Delivered(t) == nTurns' = nTurns + 1 /\ tasks'[t].event = nTurns'
Returned(t)  == tasks'[t].pc = "done" /\ (tasks[t].pc # "done" \/ tasks'[t].event # tasks[t].event)

\* This step is a step of a response webhook.
TurnStep == nStarts' = nStarts /\ enders' = enders

History(c) == heap[active[c]].conversation_history

\* C1: a turn whose utterance holds an emergency keyword, delivered for a live
\* call in any non-terminal state, sets emergency_detected, leaves the call in
\* EMERGENCY_HANDLING and returns the fixed acknowledgement with no end_call.
C1_EmergencyPreempts ==
    [][\A t \in Tasks :
          LET c == tasks'[t].call_id
          IN  ( /\ Delivered(t)
                /\ c \in CallIds
                /\ active[c] # NoObject
                /\ heap[active[c]].state \notin Terminal
                /\ EmergencyKeywordIn(tasks'[t].msg) )
              => /\ active'[c] = active[c]
                 /\ heap'[active[c]].emergency_detected
                 /\ heap'[active[c]].state = EMERGENCY_HANDLING
                 /\ tasks'[t].pc = "done"
                 /\ tasks'[t].result = <<Reply("emergency_ack", tasks'[t].response_id)>>
                 /\ ~EndCall(tasks'[t].result[1])]_vars

\* C1's case: the keyword utterance arrived right after the greeting handler's
\* question (the call was in STATUS_INQUIRY) and was acknowledged.
C1_Witness ==
    \E t \in Tasks :
        /\ tasks[t].pc = "done"
        /\ tasks[t].msg = "u_crash"
        /\ tasks[t].call_id \in CallIds
        /\ active[tasks[t].call_id] # NoObject
        /\ LET h == History(tasks[t].call_id)
           IN  /\ Len(h) >= 2
               /\ h[Len(h)].role = "user" /\ h[Len(h)].content = "u_crash"
               /\ h[Len(h) - 1].role = "assistant" /\ h[Len(h) - 1].content = "ask_unloading"
        /\ heap[active[tasks[t].call_id]].state = EMERGENCY_HANDLING
        /\ heap[active[tasks[t].call_id]].emergency_detected
        /\ tasks[t].result = <<Reply("emergency_ack", tasks[t].response_id)>>

\* C2: once emergency_detected is set, a live call's state is never again one
\* of the non-emergency dialogue states.
C2_StaysOnEmergencyPath ==
    \A c \in CallIds :
        (active[c] # NoObject /\ heap[active[c]].emergency_detected)
        => heap[active[c]].state \in EmergencyPath \cup {COMPLETED}

\* C3: once a live call is ESCALATING, no step of a response webhook takes it
\* out of that state.
C3_EscalationIrreversible ==
    [][\A c \in CallIds :
          (TurnStep /\ active[c] # NoObject /\ heap[active[c]].state = ESCALATING)
          => (active'[c] = active[c] /\ heap'[active[c]].state = ESCALATING)]_vars

C5_InitializeIdempotent ==
    [][\A c \in CallIds :
          (nStarts' = nStarts + 1 /\ active[c] # NoObject /\ active'[c] # NoObject)
          => ToDict(heap', dicts', active'[c]) = ToDict(heap, dicts, active[c])]_vars

\* C6: a turn event delivered again to the same call with the same utterance
\* and the same response id, when the first delivery has been processed into
\* the live context, leaves the history and the state as they were.
C6_DuplicateTurnIsNoOp ==
    [][\A t \in Tasks :
          LET c == tasks[t].call_id
          IN  ( /\ tasks[t].pc = "done"
                /\ Delivered(t)
                /\ c \in CallIds
                /\ tasks'[t].call_id = c
                /\ tasks'[t].msg = tasks[t].msg
                /\ tasks'[t].response_id = tasks[t].response_id
                /\ active[c] # NoObject
                /\ \E i \in 1..Len(History(c)) :
                      History(c)[i].role = "user" /\ History(c)[i].content = tasks[t].msg )
              => /\ active'[c] = active[c]
                 /\ heap'[active[c]].conversation_history = History(c)
                 /\ heap'[active[c]].state = heap[active[c]].state]_vars

\* C7: when end_conversation runs for a call with a live context while a turn
\* of that call is waiting for a collaborator, the live entry is gone and the
\* stored row is the COMPLETED one; and a turn that returns when its call has
\* no live context creates none and leaves the stored rows alone.
C7_EndWinsOverPendingTurn ==
    [][\A c \in CallIds :
          /\ ( /\ enders[c] = "end" /\ enders'[c] = "done"
               /\ active[c] # NoObject
               /\ \E t \in InFlight(tasks) : tasks[t].call_id = c )
             => /\ active'[c] = NoObject
                /\ Len(db'[c]) = 1
                /\ db'[c][1].state = COMPLETED
          /\ \A t \in Tasks :
                (Returned(t) /\ tasks'[t].call_id = c /\ active[c] = NoObject)
                => (active'[c] = NoObject /\ db'[c] = db[c])]_vars

\* C8: in the history of a live context no assistant entry follows another
\* assistant entry and none comes first: each turn, processed on its own,
\* appends its user entry and then at most one assistant entry.
C8_HistoryIsSerial ==
    \A c \in CallIds :
        active[c] # NoObject
        => \A i \in 1..Len(History(c)) :
              History(c)[i].role = "assistant"
              => (i > 1 /\ History(c)[i - 1].role = "user")

\* C9: when end_conversation has run for a call with a live context, the live
\* entry is gone and the stored row is that context in state COMPLETED.
C9_EndPersistsAndEvicts ==
    [][\A c \in CallIds :
          (enders[c] = "end" /\ enders'[c] = "done" /\ active[c] # NoObject)
          => /\ active'[c] = NoObject
             /\ Len(db'[c]) = 1
             /\ db'[c][1].state = COMPLETED
             /\ db'[c][1].conversation_history = History(c)]_vars

\* C10: a returned reply asks to end the call exactly when the turn left the
\* live context in a terminal state.
C10_EndCallIffTerminal ==
    [][\A t \in Tasks :
          LET c == tasks'[t].call_id
          IN  (Returned(t) /\ c \in CallIds /\ active'[c] # NoObject)
              => (heap'[active'[c]].state \in Terminal <=> EndCall(tasks'[t].result[1]))]_vars

\* C11: when a turn of a call with a live context returns a reply other than
\* the generic fallback and no collaborator failed, the stored row has the
\* context's state and collected data, and the history ends with the turn's
\* utterance followed by the reply.
C11_TurnPersistedAndAnswered ==
    [][\A t \in Tasks :
          LET c == tasks'[t].call_id
          IN  ( /\ Returned(t)
                /\ c \in CallIds
                /\ active[c] # NoObject
                /\ active'[c] = active[c]
                /\ nFailures' = nFailures
                /\ tasks'[t].result[1].response # "default" )
              => LET o == active[c]
                     h == heap'[o].conversation_history
                 IN  /\ Len(db'[c]) = 1
                     /\ db'[c][1].state = heap'[o].state
                     /\ db'[c][1].collected_data = dicts'[heap'[o].collected_data]
                     /\ Len(h) >= 2
                     /\ h[Len(h)].role = "assistant"
                     /\ h[Len(h)].content = tasks'[t].result[1].response
                     /\ h[Len(h) - 1].role = "user"
                     /\ h[Len(h) - 1].content = tasks'[t].msg]_vars

\* C12: in STATUS_INQUIRY, a turn that the status handler answers and whose
\* utterance holds 'arrived' or 'here' and no emergency keyword records
\* driver_status "Arrived", leaves the call in GATHERING_INFO and returns a
\* reply that does not end the call.
C12_ArrivedInStatusInquiry ==
    [][\A t \in Tasks :
          LET o == tasks[t].ctx
          IN  ( /\ tasks[t].pc = "agent"
                /\ Returned(t)
                /\ heap[o].state = STATUS_INQUIRY
                /\ AnyIn(tasks[t].msg, {"arrived", "here"})
                /\ ~EmergencyKeywordIn(tasks[t].msg)
                /\ tasks'[t].result # <<FlowDefaultResponse(tasks[t].response_id)>> )
              => /\ <<"driver_status", Lit("Arrived")>> \in dicts'[heap'[o].collected_data]
                 /\ heap'[o].state = GATHERING_INFO
                 /\ ~EndCall(tasks'[t].result[1])]_vars

\* C12's case: "I'm here" was answered in STATUS_INQUIRY.
C12_Witness ==
    \E t \in Tasks :
        /\ tasks[t].pc = "done"
        /\ tasks[t].msg = "u_here"
        /\ tasks[t].call_id \in CallIds
        /\ active[tasks[t].call_id] # NoObject
        /\ LET o == active[tasks[t].call_id]
           IN  /\ heap[o].state = GATHERING_INFO
               /\ <<"driver_status", Lit("Arrived")>> \in dicts[heap[o].collected_data]
        /\ tasks[t].result = <<Reply("ask_door_pod", tasks[t].response_id)>>

\* The data fields of a reconciliation: the keys of the rule-based result
\* other than its method tag and its confidence score.
SchemaFields(call) == DOMAIN call.rule \ {"extraction_method", "confidence_score"}

Confidence(d) == IF "confidence_score" \in DOMAIN d THEN d["confidence_score"] ELSE 0

\* C13: in a reconciliation whose generative confidence is above 0.8, every
\* data field whose generative value is not null has the generative value in
\* the combined result, and every field that is null or missing in the
\* generative result has the rule-based value.
C13_GenerativePrimary ==
    \A i \in 1..Len(ext.calls) :
        LET call == ext.calls[i]
        IN  Confidence(call.openai) > 80
            => \A key \in SchemaFields(call) :
                  call.out[key] = IF Get(call.openai, key) # Null
                                  THEN call.openai[key]
                                  ELSE call.rule[key]

Unstamped(d) == [key \in DOMAIN d \ {"extracted_at"} |-> d[key]]

RuleBasedFields(tr, scenario_type) ==
    LET rule == RuleBasedExtract(tr, IF scenario_type = DRIVER_CHECKIN
                                     THEN "check_in" ELSE "emergency")
    IN  [key \in DOMAIN rule \ {"extraction_method", "confidence_score"} |-> rule[key]]

\* C15: every analysis result stored by the call-ended webhook after the
\* generative extraction failed has confidence 0.0 and carries the rule-based
\* extractor's fields for the transcript.
C15_FailedGenerationFallsBack ==
    \A c \in CallIds :
        \A i \in 1..Len(analysis[c].stored) :
            LET analysis_result == analysis[c].stored[i]
            IN  "error" \in DOMAIN analysis_result
                => /\ analysis_result.confidence_score = 0
                   /\ analysis_result.extracted_data =
                          RuleBasedFields(analysis[c].transcript, analysis[c].scenario_type)

\* C17: a call-ended webhook for a call that was never started finishes
\* without raising, has run the extraction with a scenario type, and leaves
\* the Context Store without a context or a row for the call.
C17_EndedWithoutStart ==
    \A c \in CallIds :
        (nStarts = 0 /\ enders[c] \in {"done", "failed"})
        => /\ enders[c] = "done"
           /\ analysis[c].scenario_type \in ScenarioTypes
           /\ active[c] = NoObject
           /\ db[c] = <<>>

\* C18: every turn that has been taken up for a call with a live context
\* eventually returns a reply, whether or not the text generation answers.
C18_TurnEventuallyReturns ==
    \A t \in Tasks : (tasks[t].pc \in {"agent", "call_details", "llm"}) ~> (tasks[t].pc = "done")

\* C19: a turn whose utterance the Trigger Detector accepts, delivered for a
\* live call in a non-terminal state, puts the call on the emergency path.
C19_DetectorAcceptedMeansEmergency ==
    [][\A t \in Tasks :
          LET c == tasks'[t].call_id
          IN  ( /\ Delivered(t)
                /\ c \in CallIds
                /\ active[c] # NoObject
                /\ heap[active[c]].state \notin Terminal
                /\ DetectEmergencyTrigger(tasks'[t].msg) )
              => /\ active'[c] = active[c]
                 /\ heap'[active[c]].state \in EmergencyPath
                 /\ heap'[active[c]].emergency_detected]_vars

\* C20: for every scenario in the registry, every transition target names a
\* state of the same scenario and at least one state without outgoing
\* transition is reachable from the first state of the list; so a call that
\* follows the edges of its scenario is always in one of its states.
C20_ScenarioGraphsWellFormed ==
    /\ \A st \in SCENARIOS :
          LET states == GetStatesConfig(st)
          IN  /\ EdgeTargets(states) \subseteq StateNames(states)
              /\ Reachable(states) \cap TerminalStates(states) # {}
    /\ \A w \in Walkers :
          walk[w].scenario_type \in SCENARIOS =>
              /\ walk[w].trail[1] = GetStatesConfig(walk[w].scenario_type)[1].name
              /\ \A i \in DOMAIN walk[w].trail :
                    walk[w].trail[i] \in StateNames(GetStatesConfig(walk[w].scenario_type))

\* Both scenarios have a call that followed edges from the first state to a
\* state without outgoing transition.
C20_Witness ==
    \A st \in SCENARIOS : \E w \in Walkers :
        /\ walk[w].scenario_type = st
        /\ Len(walk[w].trail) > 1
        /\ walk[w].trail[Len(walk[w].trail)] \in TerminalStates(GetStatesConfig(st))

\* C21: in the driver check-in graph every state other than the emergency
\* state has an edge to the emergency state, so a call in any other state can
\* move to it.
C21_EveryStateHasEmergencyEdge ==
    \A w \in WalkersOf("driver_checkin") :
        CurrentState(w) # "emergency_protocol" =>
            "emergency_protocol" \in EdgesOf(DriverCheckinStates, CurrentState(w))

\* C22: in the driver check-in graph without the emergency edges, a call that
\* reached call_completion went through greeting, status_assessment,
\* location_and_eta and then delay_management or arrival_and_unloading, and a
\* call in delay_management or in arrival_and_unloading has a transition to
\* call_completion.
C22_CheckinHappyPath ==
    \A w \in WalkersOf("driver_checkin") :
        "emergency_protocol" \notin Range(walk[w].trail) =>
            /\ CurrentState(w) = "call_completion" =>
                  /\ Len(walk[w].trail) >= 5
                  /\ walk[w].trail[1] = "greeting_and_identification"
                  /\ walk[w].trail[2] = "status_assessment"
                  /\ walk[w].trail[3] = "location_and_eta"
                  /\ walk[w].trail[4] \in {"delay_management", "arrival_and_unloading"}
            /\ CurrentState(w) \in {"delay_management", "arrival_and_unloading"} =>
                  "call_completion" \in EdgesOf(DriverCheckinStates, CurrentState(w))

\* C23: in the emergency-protocol graph emergency_escalation has no outgoing
\* transition, the only transition out of emergency_response leads to
\* emergency_escalation, and a call reaches call_completion from
\* initial_assessment only through routine_logistics.
C23_EmergencyProtocolShape ==
    /\ EdgesOf(EmergencyProtocolStates, "emergency_escalation") = {}
    /\ EdgesOf(EmergencyProtocolStates, "emergency_response") = {"emergency_escalation"}
    /\ \A w \in WalkersOf("emergency_protocol") :
          /\ walk[w].trail[1] = "initial_assessment"
          /\ \A i \in DOMAIN walk[w].trail :
                /\ (walk[w].trail[i] = "call_completion" /\ i > 1) =>
                      walk[w].trail[i - 1] = "routine_logistics"
                /\ walk[w].trail[i] = "call_completion" =>
                      "routine_logistics" \in Range(walk[w].trail)
                /\ (walk[w].trail[i] = "emergency_response" /\ i < Len(walk[w].trail)) =>
                      walk[w].trail[i + 1] = "emergency_escalation"
                /\ walk[w].trail[i] = "emergency_escalation" => i = Len(walk[w].trail)

\* One call went through emergency_response to emergency_escalation and
\* another through routine_logistics to call_completion.
C23_Witness ==
    /\ \E w \in WalkersOf("emergency_protocol") :
          /\ CurrentState(w) = "emergency_escalation"
          /\ "emergency_response" \in Range(walk[w].trail)
    /\ \E w \in WalkersOf("emergency_protocol") :
          /\ CurrentState(w) = "call_completion"
          /\ "routine_logistics" \in Range(walk[w].trail)

\* C24: after any sequence of turns, every key of a live call's collected
\* data is a field name of the extraction schema of the call's scenario.
C24_CollectedKeysInSchema ==
    \A c \in CallIds :
        active[c] # NoObject =>
            Keys(dicts[heap[active[c]].collected_data])
                \subseteq GetDataExtractionSchema(heap[active[c]].scenario_type)

C26_TurnIndexOrdersHistory ==
    \A o \in { active[c] : c \in CallIds }
             \cup { tasks[t].ctx : t \in { k \in Tasks : tasks[k].pc \notin {"idle", "done"} } } :
        o # NoObject =>
            \A i, j \in DOMAIN heap[o].conversation_history :
                i < j => heap[o].conversation_history[i].turn
                            < heap[o].conversation_history[j].turn

\* A live call whose history holds the entries of two turns, the second
\* delivered while the first was still in flight.
C26_Witness ==
    \E c \in CallIds :
        /\ active[c] # NoObject
        /\ Len(History(c)) >= 3
        /\ History(c)[1].role = "user"
        /\ History(c)[2].role = "user"
        /\ \E t \in Tasks : tasks[t].pc \notin {"idle", "done"} /\ tasks[t].ctx = active[c]

\* C27: validate_scenario_agent_data gives a non-empty list of errors for an
\* emergency-protocol agent whose responsiveness is a number below 1.0, and
\* for a scenario type that is not registered it gives a list with an error
\* and does not raise; get_scenario_config raises for every type that is not
\* registered, and for no registered one.
C27_ValidateAndLookup ==
    /\ \A i \in DOMAIN reg.errors :
          /\ ( /\ reg.scenario_type = "emergency_protocol"
               /\ reg.agent_data.responsiveness.given = "number"
               /\ reg.agent_data.responsiveness.value < 100 )
             => (reg.errors[i].raised = "none" /\ reg.errors[i].errors # <<>>)
          /\ reg.scenario_type \notin SCENARIOS
             => (reg.errors[i].raised = "none" /\ reg.errors[i].errors # <<>>)
    /\ \A i \in DOMAIN reg.configs :
          reg.configs[i].raised = "ValueError" <=> reg.scenario_type \notin SCENARIOS

\* Validation ran on an emergency-protocol agent with responsiveness 0.5 and
\* all required fields, and the lookup ran.
C27_Witness ==
    /\ reg.scenario_type = "emergency_protocol"
    /\ reg.agent_data.responsiveness = Number(50)
    /\ ~Missing(reg.agent_data.name)
    /\ ~Missing(reg.agent_data.scenario_type)
    /\ Len(reg.errors) >= 1
    /\ Len(reg.configs) >= 1

\* C28: a configuration build_llm_config returns has the agent's opening
\* message when the agent has one and the scenario's otherwise, has the
\* prompt, the states and the tools of the scenario, and starts in the first
\* state of the scenario's list; two calls of build_llm_config, and two of
\* build_agent_config, with the same agent record give the same result.
C28_LlmConfigFromScenario ==
    /\ \A i \in DOMAIN reg.llm_configs :
          LET llm_config == reg.llm_configs[i]
              st == reg.agent_data.scenario_type
          IN  llm_config.raised = "none" =>
                 /\ st \in SCENARIOS
                 /\ llm_config.begin_message =
                        IF reg.agent_data.begin_message \notin {Absent, ""}
                        THEN reg.agent_data.begin_message
                        ELSE GetBeginMessage(st)
                 /\ llm_config.general_prompt = GetGeneralPrompt(st)
                 /\ llm_config.states = GetStatesConfig(st)
                 /\ llm_config.general_tools = GetGeneralTools(st)
                 /\ llm_config.starting_state = GetStatesConfig(st)[1].name
    /\ \A i, j \in DOMAIN reg.llm_configs : reg.llm_configs[i] = reg.llm_configs[j]
    /\ \A i, j \in DOMAIN reg.agent_configs : reg.agent_configs[i] = reg.agent_configs[j]

\* Both builders ran twice on an agent of a registered scenario that has its
\* own opening message.
C28_Witness ==
    /\ reg.agent_data.scenario_type \in SCENARIOS
    /\ reg.agent_data.begin_message = "custom_begin"
    /\ Len(reg.llm_configs) = 2
    /\ reg.llm_configs[1].raised = "none"
    /\ reg.llm_configs[1].begin_message = "custom_begin"
    /\ Len(reg.agent_configs) = 2

\* C29: the configuration of every registered scenario has one or two tools,
\* all of them ending the call, and a scenario whose graph has an emergency
\* state has two of different names, one for the emergency exit and one for
\* the normal exit.
C29_TwoEndToolsWhenEmergency ==
    \A i \in DOMAIN reg.configs :
        LET config == reg.configs[i]
        IN  config.raised = "none" =>
               /\ Len(config.general_tools) \in {1, 2}
               /\ \A k \in DOMAIN config.general_tools :
                     config.general_tools[k].type = "end_call"
               /\ EmergencyStateNames(config.states) # {} =>
                     /\ Len(config.general_tools) = 2
                     /\ ToolNames(config.general_tools) = {"end_call_emergency", "end_call"}

\* C30: a turn whose utterance holds an emergency keyword, delivered for a
\* live call that is already in EMERGENCY_HANDLING, is not acknowledged as an
\* emergency again: the trigger is skipped and the turn goes on, in the same
\* state, to the agent lookup and the handler of the state.
C30_NoRepeatedAcknowledgement ==
    [][\A t \in Tasks :
          LET c == tasks'[t].call_id
          IN  ( /\ Delivered(t)
                /\ c \in CallIds
                /\ active[c] # NoObject
                /\ heap[active[c]].state = EMERGENCY_HANDLING
                /\ EmergencyKeywordIn(tasks'[t].msg) )
              => /\ active'[c] = active[c]
                 /\ heap'[active[c]].state = EMERGENCY_HANDLING
                 /\ tasks'[t].pc = "agent"
                 /\ tasks'[t].result = <<>>]_vars

\* C31: update_conversation overwrites the fields its arguments name with the
\* given values (a key that is no attribute names an entry of the context
\* dict) and leaves every other field of that context, and every other
\* context, as it was; for a call id without live context nothing changes and
\* no context is created.
C31_UpdateOverwritesNamedOnly ==
    [][upd'.n = upd.n + 1 =>
          LET c     == upd'.call_id
              us    == upd'.updates
              named == { us[i][1] : i \in DOMAIN us }
              Rest(d) == { p \in d : p[1] \notin named }
          IN  /\ active' = active
              /\ \A k \in CallIds \ {c} :
                    active[k] # NoObject =>
                        ToDict(heap', dicts', active[k]) = ToDict(heap, dicts, active[k])
              /\ IF active[c] = NoObject
                 THEN heap' = heap /\ dicts' = dicts /\ db' = db
                 ELSE LET before == ToDict(heap, dicts, active[c])
                          after  == ToDict(heap', dicts', active[c])
                      IN  /\ \A i \in DOMAIN us :
                                CASE us[i][1] = "state" -> after.state = us[i][2]
                                  [] us[i][1] = "collected_data" ->
                                        after.collected_data = us[i][2]
                                  [] us[i][1] = "context" -> Rest(after.context) = Rest(us[i][2])
                                  [] OTHER -> <<us[i][1], us[i][2]>> \in after.context
                          /\ \A f \in (ContextAttrs \ named) \ {"context"} :
                                after[f] = before[f]
                          /\ "context" \notin named =>
                                Rest(after.context) = Rest(before.context)]_vars


\* C32: the confidence score of every extraction result, of either pipeline and
\* of every reconciliation inside it, lies between 0 and 1 (0 and 100
\* hundredths).
C32_ConfidenceInUnitInterval ==
    /\ \A i \in 1..Len(ext.runs) :
           /\ "confidence_score" \in DOMAIN ext.runs[i]
           /\ ext.runs[i]["confidence_score"] \in 0..100
    /\ \A i \in 1..Len(ext.calls) :
           /\ Confidence(ext.calls[i].openai) \in 0..100
           /\ Confidence(ext.calls[i].rule) \in 0..100
           /\ Confidence(ext.calls[i].out) \in 0..100

\* C32's case: a transcript of more than fifty words whose generative answer
\* fills every field (the score that the tenth would raise above 1), run
\* through both pipelines.
C32_Witness ==
    /\ ext.transcript = "t_long"
    /\ Len(ext.runs) = 2
    /\ "extracted_data" \in DOMAIN ext.runs[1]
    /\ ext.runs[1]["confidence_score"] = 100
    /\ "extraction_method" \in DOMAIN ext.runs[2]
    /\ ext.runs[2]["extraction_method"] = "openai_primary"

\* C33: a call-ended webhook for a call with a live context finishes with the
\* context off the live table, whatever collaborator fails; the context is
\* taken off by end_conversation only, and end_conversation is reached from
\* the extraction only.
C33_EndedAlwaysEvicts ==
    [][\A c \in CallIds :
          /\ ( /\ enders'[c] \in {"done", "failed"}
               /\ enders'[c] # enders[c]
               /\ active[c] # NoObject )
             => active'[c] = NoObject
          /\ (active[c] # NoObject /\ active'[c] = NoObject) => enders[c] = "end"
          /\ (active[c] # NoObject /\ enders[c] # "end" /\ enders'[c] = "end")
             => enders[c] = "extract"]_vars

CompletionTurns == 6   \* turns a call is followed for on its way to completed

\* The utterances without a keyword of detect_emergency.
NonEmergencyUtterances == { u \in AllUtterances : ~EmergencyKeywordIn(u) }

\* The answers of the text generation that flag no emergency.
PlainLLMResponses == { r \in LLMResponses : ~r.emergency_detected /\ r.response = Absent }

\* The memories one turn with a non-emergency utterance can leave when every
\* lookup answers: the dispatch of _generate_contextual_response, and for the
\* branches that defer to the text generation one memory per answer.
ScriptedTurn(m, o, u) ==
    LET state == m.h[o].state
        Generated(m1) == { ApplyLLMResponse(m1, o, r, 1).m : r \in PlainLLMResponses }
    IN  CASE state = INITIALIZING       -> {HandleInitializationEnter(m, o)}
          [] state = GREETING           -> {HandleGreetingResponse(m, o, u, 1).m}
          [] state = STATUS_INQUIRY     -> IF StatusDefersToLLM(u)
                                           THEN Generated(HandleStatusResponse(m, o, u, 1).m)
                                           ELSE {HandleStatusResponse(m, o, u, 1).m}
          [] state = GATHERING_INFO     -> {HandleInfoGathering(m, o, u, 1).m}
          [] state = EMERGENCY_HANDLING -> {HandleEmergencyConversation(m, o, u, 1).m}
          [] state = CLOSING            -> {HandleClosing(m, o, u, 1).m}
          [] OTHER                      -> Generated(m)

\* Some sequence of at most n non-emergency turns takes the context o to
\* COMPLETED.
RECURSIVE CanComplete(_, _, _)
CanComplete(m, o, n) ==
    \/ m.h[o].state = COMPLETED
    \/ /\ n > 0
       /\ \E u \in NonEmergencyUtterances :
             \E m1 \in ScriptedTurn(m, o, u) : CanComplete(m1, o, n - 1)

\* C34: between two turns, every live call in a non-terminal state can be taken
\* to the completed state by some sequence of non-emergency utterances.
C34_NoTrapBeforeCompleted ==
    \A c \in CallIds :
        (Quiet /\ active[c] # NoObject /\ heap[active[c]].state \notin Terminal)
        => CanComplete(Mem, active[c], CompletionTurns)

\* C35: a live call whose state is emergency_detected, emergency_handling or
\* escalating has its emergency_detected flag set.
C35_EmergencyStateOnlyIfDetected ==
    \A c \in CallIds :
        (active[c] # NoObject /\ heap[active[c]].state \in EmergencyPath)
        => heap[active[c]].emergency_detected

\* The scripted order of the states, and the state after each.
ScriptedOrder == <<INITIALIZING, GREETING, STATUS_INQUIRY, GATHERING_INFO, CLOSING, COMPLETED>>

Following(state) ==
    { ScriptedOrder[i + 1] : i \in { j \in 1..(Len(ScriptedOrder) - 1) : ScriptedOrder[j] = state } }

\* C36: in a call without emergency keyword and without generated next state,
\* every step of a turn leaves the state where it is or moves it to the next
\* state of the scripted order, a turn changes it once at most, and a turn
\* handled in gathering_info moves to closing exactly when the collected fields
\* are sufficient after it.
C36_ForwardOneStepPerTurn ==
    [][\A t \in Tasks :
        /\ LET c == tasks'[t].call_id
           IN  (Delivered(t) /\ c \in CallIds /\ active[c] # NoObject)
               => /\ active'[c] = active[c]
                  /\ heap'[active'[c]].state = heap[active[c]].state
        /\
          LET c == tasks[t].call_id
          IN  ( /\ tasks'[t] # tasks[t]
                /\ tasks[t].pc \in {"agent", "call_details", "llm"}
                /\ c \in CallIds
                /\ active[c] # NoObject
                /\ active[c] = tasks[t].ctx )
              => LET before == heap[active[c]].state
                     after  == heap'[active'[c]].state
                 IN  /\ active'[c] # NoObject
                     /\ after = before \/ after \in Following(before)
                     /\ after # before => tasks[t].pc = "agent"
                     /\ ( /\ before = GATHERING_INFO
                          /\ tasks'[t].pc = "done"
                          /\ tasks'[t].result[1] # FlowDefaultResponse(tasks[t].response_id) )
                        => (after = CLOSING <=> HasSufficientInfo(Mem', active'[c]))]_vars

\* C36's case: a call of the other scenario that stayed in gathering_info
\* with one field and moved to closing on the turn that brought the second.
C36_Witness ==
    /\ active["c1"] # NoObject
    /\ heap[active["c1"]].scenario_type # DRIVER_CHECKIN
    /\ heap[active["c1"]].state = CLOSING
    /\ Keys(dicts[heap[active["c1"]].collected_data]) = {"unloading_status", "current_location"}

\* What get_conversation(c) shows with the live table a and the memory h, ds:
\* nothing, or the data of the live context.
LiveView(a, h, ds, c) == IF a[c] = NoObject THEN <<>> ELSE <<ToDict(h, ds, a[c])>>

\* C37: a step that changes the live context of a call, or creates or removes
\* it, is a step of an event for that call: of one of its turns, of its
\* call-ended event, of an update naming it, or of a call-started event, which
\* changes no other call.
C37_OtherCallsUntouched ==
    [][\A c \in CallIds :
          LiveView(active', heap', dicts', c) # LiveView(active, heap, dicts, c)
          => \/ \E t \in Tasks : tasks'[t] # tasks[t] /\ tasks'[t].call_id = c
             \/ enders'[c] # enders[c]
             \/ upd' # upd /\ upd'.call_id = c
             \/ /\ nStarts' # nStarts
                /\ \A d \in CallIds \ {c} :
                      LiveView(active', heap', dicts', d) = LiveView(active, heap, dicts, d)]_vars

\* C37's case: both calls live, one after a turn and an update of its own, the
\* other as call-started left it.
C37_Witness ==
    /\ active["c1"] # NoObject
    /\ active["c2"] # NoObject
    /\ Len(heap[active["c1"]].conversation_history) >= 2
    /\ upd.n = 1
    /\ upd.call_id = "c1"
    /\ heap[active["c2"]].conversation_history = <<>>
    /\ heap[active["c2"]].state = INITIALIZING
    /\ enders["c2"] = "idle"

\* C38: every result of process_conversation is a result (nothing is raised);
\* for a transcript with an emergency keyword it is the emergency scenario's,
\* with outcome "escalated", whatever the metadata; for a transcript without
\* one and metadata without the emergency hint it is the dispatch check-in's,
\* with an outcome other than "escalated".
C38_KeywordDecidesScenario ==
    \A i \in 1..Len(proc.results) :
        LET result  == proc.results[i]
            keyword == SaidAny(proc.transcript, processor_emergency_keywords)
            hint    == MetadataScenario(proc.metadata) = "emergency"
        IN  /\ "call_outcome" \in DOMAIN result
            /\ keyword => /\ result.scenario = "emergency_protocol"
                          /\ result.call_outcome = "escalated"
            /\ (~keyword /\ ~hint) => /\ result.scenario = "dispatch_checkin"
                                      /\ result.call_outcome # "escalated"

====
